---- MODULE Spec2Model ----
(***************************************************************************)
(* A model of the data core of world_aq: the NOAA station matcher, the     *)
(* OpenAQ bulk-archive downloader, the outlier detectors, the distance     *)
(* weighted multi-station fusion, the gap-bounded interpolation, the       *)
(* acquisition clients and their caches, the paged REST query, the raw     *)
(* GSOD cleaning, the per-city pipelines with their batch loops, the       *)
(* NOAA / OpenAQ year merger, the sensor lookup of the REST path and two   *)
(* matcher queries running concurrently.                                   *)
(*                                                                         *)
(* Numbers that the program holds as floats are exact rationals <<n, d>>   *)
(* with d > 0 in lowest terms; the missing value NaN is <<0, 0>>.          *)
(* Each component has its own specification (SpecFuse, SpecOutlier,        *)
(* SpecInterp, SpecMatch, SpecDownload, SpecAcquire, SpecPages, SpecBatch, *)
(* SpecClean, SpecAir, SpecCity, SpecMerge, SpecApi, SpecShared); a        *)
(* specification leaves the other components' variables at their idle      *)
(* values.                                                                 *)
(***************************************************************************)
EXTENDS Integers, Sequences, FiniteSets, TLC

VARIABLES
    \* ---- fusion (noaa_processor.py / openaq_processor.py / noaa_pipeline.py)
    source,              \* "noaa" | "openaq" | "idle": which processor's tables these are
    columns,             \* the value columns every station table has
    station_dataframes,  \* station id -> table; a table maps the dates it has a row for to the row
    stations_info,       \* station id -> distance of the station in metres
    fuse_op,             \* the operation that produced `result` ("none" before any)
    result,              \* the fused table: a sequence of rows
    \* ---- outlier detection
    raw_table,           \* input table: a sequence of rows, column -> value
    flagged,             \* output table of the detector: [op, rows, flag_cols]
    \* ---- interpolation
    series,              \* one numeric column of the fused table: date -> value
    limit,               \* interpolate_missing_values(limit=...)
    interp,              \* the returned table: [done, date, v, has_flag_col, interpolated]
    \* ---- station matcher
    catalog,             \* isd-history rows as read by read_csv
    now,                 \* datetime.now() as YYYYMMDD
    df,                  \* NOAAStationMatcher.df
    matcher_built,       \* TRUE once __init__ has run
    query,               \* arguments of the last find_nearest_* call
    stations,            \* what the last find_nearest_* call returned
    \* ---- bulk archive download
    s3_files,            \* keys listed for (location, year)
    will_fail,           \* the keys whose get_object / write raises
    cached,              \* the keys whose local file exists
    use_cache,           \* download_year_data(use_cache=...)
    pending,             \* executor queue: keys submitted and not yet taken by a worker
    worker,              \* pool thread -> [pc, key, tmp]
    lock,                \* holder of `lock` (0: free)
    success_count,
    failed_count,
    futures,             \* key -> "running" | "path" | "none" (the future's result)
    collected,           \* keys whose future the caller has already consumed
    downloaded_files,    \* the list the caller builds
    dl_pc,               \* download_year_data: "idle" | "start" | "collect" | "returned"
    \* ---- acquisition runs (noaa/client.py, noaa_pipeline.py, s3_downloader.py)
    noaa_cache,          \* <<station, year>> -> content of {year}_{station}.csv in the city cache dir
    s3_cache,            \* year -> content of the local copy of that year's archive object
    acq,                 \* the acquisition run in progress: position, results, request tallies
    last_call,           \* the latest NOAAClient.download_year call and what it returned
    \* ---- paged REST query (openaq/client.py)
    pg,                  \* get_sensor_measurements: position, arguments, requests, responses
    \* ---- city batches (noaa_pipeline.py, openaq_pipeline.py)
    batch,               \* process_*_cities: position, per-city outcomes, results, saved files
    \* ---- NOAADataProcessor.process (noaa_processor.py)
    gsod,                \* NOAADataProcessor.process: the raw table and the processed one
    \* ---- OpenAQCityPipeline download paths (openaq_pipeline.py)
    air,                 \* OpenAQCityPipeline.process_city: raw readings, checked and saved rows
    \* ---- NOAACityPipeline.process_city, steps 3 to 5 and save (noaa_pipeline.py)
    city,                \* NOAA process_city: converted station tables, distances, the saved file
    \* ---- DataMerger.merge_city_year (merger.py)
    merge,              \* merge_city_year: the two city-year files and the call's outcome
    \* ---- OpenAQ REST path: sensor resolution and measurement query
    api,                 \* REST path: the sensor catalog, the station, the resolved and the queried sensor
    \* ---- two concurrent find_nearest_stations calls on one matcher
    shared               \* one matcher's table and two find_nearest_stations calls running on it

fuseVars == <<source, columns, station_dataframes, stations_info, fuse_op, result>>
outlierVars == <<raw_table, flagged>>
interpVars == <<series, limit, interp>>
matchVars == <<catalog, now, df, matcher_built, query, stations>>
dlVars == <<s3_files, will_fail, cached, use_cache, pending, worker, lock, success_count,
            failed_count, futures, collected, downloaded_files, dl_pc>>
acqVars == <<noaa_cache, s3_cache, acq, last_call>>
pageVars == <<pg>>
batchVars == <<batch>>
cleanVars == <<gsod>>
airVars == <<air>>
cityVars == <<city>>
mergeVars == <<merge>>
apiVars == <<api>>
sharedVars == <<shared>>
pipelineVars == <<acqVars, pageVars, batchVars, cleanVars, airVars, cityVars, mergeVars, apiVars, sharedVars>>
coreVars == <<fuseVars, outlierVars, interpVars, matchVars, dlVars>>
acqRest == <<coreVars, pageVars, batchVars, cleanVars, airVars, cityVars, mergeVars, apiVars, sharedVars>>
pageRest == <<coreVars, acqVars, batchVars, cleanVars, airVars, cityVars, mergeVars, apiVars, sharedVars>>
batchRest == <<coreVars, acqVars, pageVars, cleanVars, airVars, cityVars, mergeVars, apiVars, sharedVars>>
cleanRest == <<coreVars, acqVars, pageVars, batchVars, airVars, cityVars, mergeVars, apiVars, sharedVars>>
airRest == <<coreVars, acqVars, pageVars, batchVars, cleanVars, cityVars, mergeVars, apiVars, sharedVars>>
cityRest == <<coreVars, acqVars, pageVars, batchVars, cleanVars, airVars, mergeVars, apiVars, sharedVars>>
mergeRest == <<coreVars, acqVars, pageVars, batchVars, cleanVars, airVars, cityVars, apiVars, sharedVars>>
apiRest == <<coreVars, acqVars, pageVars, batchVars, cleanVars, airVars, cityVars, mergeVars, sharedVars>>
sharedRest == <<coreVars, acqVars, pageVars, batchVars, cleanVars, airVars, cityVars, mergeVars, apiVars>>
vars == <<coreVars, pipelineVars>>

-----------------------------------------------------------------------------
(* Exact arithmetic on rationals.                                          *)

NaN == <<0, 0>>
IsNull(v) == v[2] = 0
NotNull(v) == v[2] # 0

Abs(x) == IF x < 0 THEN -x ELSE x

RECURSIVE GCD(_, _)
GCD(a, b) == IF b = 0 THEN a ELSE GCD(b, a % b)

Norm(n, d) ==
    LET s == IF d < 0 THEN -1 ELSE 1
        g == GCD(Abs(n), Abs(d))
    IN  IF d = 0 THEN NaN ELSE <<(s * n) \div g, (s * d) \div g>>

Rat(i) == <<i, 1>>
RAdd(a, b) == Norm(a[1] * b[2] + b[1] * a[2], a[2] * b[2])
RMul(a, b) == Norm(a[1] * b[1], a[2] * b[2])
RDiv(a, b) == Norm(a[1] * b[2], a[2] * b[1])
RLess(a, b) == a[1] * b[2] < b[1] * a[2]
RLeq(a, b) == a[1] * b[2] <= b[1] * a[2]
\* Python's max(a, b): a unless b > a.
RMax(a, b) == IF RLess(a, b) THEN b ELSE a

RECURSIVE SumSeq(_)
SumSeq(s) == IF s = <<>> THEN Rat(0) ELSE RAdd(Head(s), SumSeq(Tail(s)))

RECURSIVE SetToSortedSeq(_)
SetToSortedSeq(S) ==
    IF S = {} THEN <<>>
    ELSE LET m == CHOOSE x \in S : \A y \in S : x <= y
         IN  <<m>> \o SetToSortedSeq(S \ {m})

RECURSIVE FlattenSeq(_)
FlattenSeq(ss) == IF ss = <<>> THEN <<>> ELSE Head(ss) \o FlattenSeq(Tail(ss))

-----------------------------------------------------------------------------
(* Multi-station fusion.                                                   *)
(*                                                                         *)
(* A station table is a function from the dates it has a row for to the    *)
(* row, a function from `columns` to values.  Two of the eight core        *)
(* weather columns are carried (the code treats all eight alike), and one  *)
(* pollutant column for the air-quality processor.                         *)

MaxStations == 2
Dates == {1, 2}
Distances == {50, 200, 500}          \* metres; 50 m is below the clamp

core_cols == <<"temp_avg_c", "precip_mm">>
Absent == 0 - 1                         \* a column the row does not have

ColValues(c) ==
    IF c = "precip_mm" THEN {NaN, Rat(0)} ELSE {NaN, Rat(-10), Rat(30)}

SeqToSet(s) == {s[i] : i \in 1..Len(s)}

\* The rows a station may have on date d: any on the first date, one shape later.
RowsAt(d, cols) ==
    IF d = 1
    THEN {r \in [cols -> {NaN, Rat(0), Rat(-10), Rat(30)}] : \A c \in cols : r[c] \in ColValues(c)}
    ELSE {[c \in cols |-> IF c = "precip_mm" THEN NaN ELSE Rat(20)]}

Tables(cols) ==
    UNION {{t \in [D -> UNION {RowsAt(d, cols) : d \in D}] : \A d \in D : t[d] \in RowsAt(d, cols)}
           : D \in (SUBSET Dates) \ {{}}}

\* station latitude as carried in the table's lat column
LatOf(sid) == sid

\* distance_km of a stations_info entry (the matcher reports kilometres)
distance_km(info, sid) == Norm(info[sid], 1000)

\* noaa_processor.py:221,228  distance_map.get(station_id, 1); 1.0 / max(d, 0.1)
NOAAWeightNoClamp(dfs_info, sid) ==
    RDiv(Rat(1), IF sid \in DOMAIN dfs_info THEN distance_km(dfs_info, sid) ELSE Rat(1))
NOAAWeight(dfs_info, sid) ==
    RDiv(Rat(1), RMax(IF sid \in DOMAIN dfs_info THEN distance_km(dfs_info, sid) ELSE Rat(1),
                      <<1, 10>>))

\* openaq_processor.py:232-251  distance_map.get(str(sensor_id), 1000); 1.0 / max(d, 100)
OpenAQWeight(dfs_info, sid) ==
    RDiv(Rat(1), RMax(IF sid \in DOMAIN dfs_info THEN Rat(dfs_info[sid]) ELSE Rat(1000),
                      Rat(100)))

\* One station's rows, in date order, tagged as lines 225-229 do.
StationRows(dfs, sid, w) ==
    LET ds == SetToSortedSeq(DOMAIN dfs[sid])
    IN  [i \in 1..Len(ds) |->
            [date |-> ds[i], _station_id |-> sid, _weight |-> w, lat |-> LatOf(sid),
             vals |-> dfs[sid][ds[i]]]]

\* pd.concat(all_data, ignore_index=True), stations in dict order
Combined(dfs, weight) ==
    LET ids == SetToSortedSeq(DOMAIN dfs)
    IN  FlattenSeq([i \in 1..Len(ids) |-> StationRows(dfs, ids[i], weight[ids[i]])])

\* group[group[col].notna()]
ValidRows(group, col) == SelectSeq(group, LAMBDA r : NotNull(r.vals[col]))

\* np.average(values, weights=weights) = sum(v * w) / sum(w)
np_average(valid, col) ==
    RDiv(SumSeq([i \in 1..Len(valid) |-> RMul(valid[i].vals[col], valid[i]._weight)]),
         SumSeq([i \in 1..Len(valid) |-> valid[i]._weight]))

Card(S) == Cardinality(S)

\* noaa_processor.py:282  valid_col_count / total_cols if total_cols > 0 else 0
NOAAQualityScoreOverValid(valid_col_count, total_cols) ==
    IF valid_col_count > 0 THEN Rat(1) ELSE Rat(0)
NOAAQualityScore(valid_col_count, total_cols) ==
    IF total_cols > 0 THEN Norm(valid_col_count, total_cols) ELSE Rat(0)

\* openaq_processor.py:286  valid_col_count / len(numeric_cols) if numeric_cols else 0
OpenAQQualityScore(valid_col_count, total_cols) ==
    IF total_cols > 0 THEN Norm(valid_col_count, total_cols) ELSE Rat(0)

\* noaa_processor.py:250-284, the body of the loop over combined.groupby("date")
NOAAFusedRow(combined, cols, date, quality_control) ==
    LET group == SelectSeq(combined, LAMBDA r : r.date = date)
        numeric_cols == {c \in SeqToSet(core_cols) : c \in cols}
        total_cols == Card(numeric_cols)
        valid(c) == ValidRows(group, c)
        valid_col_count == Card({c \in numeric_cols : Len(valid(c)) > 0})
    IN  [date |-> date,
         vals |-> [c \in numeric_cols |->
                      IF Len(valid(c)) > 0 THEN np_average(valid(c), c) ELSE NaN],
         source_count |-> [c \in numeric_cols |->
                      IF quality_control THEN Len(valid(c)) ELSE Absent],
         lat |-> group[1].lat,
         station_count |-> Card({group[i]._station_id : i \in 1..Len(group)}),
         data_source |-> "weighted_average",
         data_quality_score |->
             IF ~quality_control THEN NaN
             ELSE NOAAQualityScore(valid_col_count, total_cols)]

\* noaa_processor.py:199-218 and noaa_pipeline.py:123-139: the only station's
\* table, copied, with the bookkeeping columns set to constants
NOAASingleStation(dfs, cols) ==
    LET sid == CHOOSE s \in DOMAIN dfs : TRUE
        ds == SetToSortedSeq(DOMAIN dfs[sid])
    IN  [i \in 1..Len(ds) |->
            [date |-> ds[i],
             vals |-> dfs[sid][ds[i]],
             source_count |-> [c \in cols |-> IF c \in SeqToSet(core_cols) THEN 1 ELSE Absent],
             lat |-> LatOf(sid),
             station_count |-> 1,
             data_source |-> "single_station",
             data_quality_score |-> Rat(1)]]

AllDates(dfs) == UNION {DOMAIN dfs[s] : s \in DOMAIN dfs}

\* NOAADataProcessor.merge_multi_station_data
NOAA_merge_multi_station_data(dfs, dfs_info, cols, quality_control) ==
    IF DOMAIN dfs = {} THEN <<>>
    ELSE IF Card(DOMAIN dfs) = 1 THEN NOAASingleStation(dfs, cols)
    ELSE LET combined == Combined(dfs, [s \in DOMAIN dfs |-> NOAAWeight(dfs_info, s)])
             ds == SetToSortedSeq(AllDates(dfs))
         IN  [i \in 1..Len(ds) |-> NOAAFusedRow(combined, cols, ds[i], quality_control)]

\* openaq_processor.py:266-288
OpenAQFusedRow(combined, cols, date) ==
    LET group == SelectSeq(combined, LAMBDA r : r.date = date)
        numeric_cols == cols
        valid(c) == ValidRows(group, c)
        valid_col_count == Card({c \in numeric_cols : Len(valid(c)) > 0})
    IN  [date |-> date,
         vals |-> [c \in numeric_cols |->
                      IF Len(valid(c)) > 0 THEN np_average(valid(c), c) ELSE NaN],
         source_count |-> [c \in numeric_cols |->
                      IF Len(valid(c)) > 0 THEN Len(valid(c)) ELSE Absent],
         lat |-> Absent,
         station_count |-> Card({group[i]._station_id : i \in 1..Len(group)}),
         data_source |-> "weighted_average",
         data_quality_score |->
             OpenAQQualityScore(valid_col_count, Card(numeric_cols))]

\* openaq_processor.py:225-229
OpenAQSingleStation(dfs, cols) ==
    LET sid == CHOOSE s \in DOMAIN dfs : TRUE
        ds == SetToSortedSeq(DOMAIN dfs[sid])
    IN  [i \in 1..Len(ds) |->
            [date |-> ds[i],
             vals |-> dfs[sid][ds[i]],
             source_count |-> [c \in cols |-> Absent],
             lat |-> Absent,
             station_count |-> Absent,
             data_source |-> "single_station",
             data_quality_score |-> Rat(1)]]

\* OpenAQDataProcessor.merge_multi_station_data
OpenAQ_merge_multi_station_data(dfs, dfs_info, cols) ==
    IF DOMAIN dfs = {} THEN <<>>
    ELSE IF Card(DOMAIN dfs) = 1 THEN OpenAQSingleStation(dfs, cols)
    ELSE LET combined == Combined(dfs, [s \in DOMAIN dfs |-> OpenAQWeight(dfs_info, s)])
             ds == SetToSortedSeq(AllDates(dfs))
         IN  [i \in 1..Len(ds) |-> OpenAQFusedRow(combined, cols, ds[i])]

-----------------------------------------------------------------------------
(* Outlier detection.                                                      *)
(*                                                                         *)
(* A table is [kind, cols, rows]: rows is a sequence of functions from     *)
(* cols to values.  The detector returns [op, rows, flags]: flags maps     *)
(* each column that received a {col}_is_outlier column to that column.     *)

MaxRows == 2

\* noaa_processor.py:21-29
NOAA_OUTLIER_THRESHOLDS ==
    [temp_avg_c |-> <<Rat(-60), Rat(60)>>,
     temp_max_c |-> <<Rat(-60), Rat(60)>>,
     temp_min_c |-> <<Rat(-60), Rat(60)>>,
     precip_mm |-> <<Rat(0), Rat(2000)>>,
     wind_speed_kmh |-> <<Rat(0), Rat(300)>>,
     visibility_km |-> <<Rat(0), Rat(100)>>,
     station_pressure_hpa |-> <<Rat(870), Rat(1085)>>]

\* openaq_processor.py:18-25
OPENAQ_OUTLIER_THRESHOLDS ==
    [pm25 |-> <<Rat(0), Rat(1000)>>,
     pm10 |-> <<Rat(0), Rat(2000)>>,
     o3 |-> <<Rat(0), <<1, 2>>>>,
     no2 |-> <<Rat(0), Rat(2)>>,
     so2 |-> <<Rat(0), Rat(1)>>,
     co |-> <<Rat(0), Rat(50)>>]

\* ((col < min_val) | (col > max_val)) & col.notna(), one value
is_outlier_upper_only(v, min_val, max_val) == RLess(max_val, v) /\ NotNull(v)
is_outlier(v, min_val, max_val) ==
    (RLess(v, min_val) \/ RLess(max_val, v)) /\ NotNull(v)

valid_count(rows, col) == Card({i \in 1..Len(rows) : NotNull(rows[i][col])})

\* the columns for which the detector goes past its early exits
FlaggedCols(cols, rows, thresholds) ==
    {c \in cols \cap DOMAIN thresholds : valid_count(rows, c) # 0}

\* result.loc[is_outlier, col] = np.nan for every checked column
NulledRows(cols, rows, thresholds) ==
    LET fc == FlaggedCols(cols, rows, thresholds)
    IN  [i \in 1..Len(rows) |->
            [c \in cols |->
                IF c \in fc /\ is_outlier(rows[i][c], thresholds[c][1], thresholds[c][2])
                THEN NaN ELSE rows[i][c]]]

\* result[f"{col}_is_outlier"] = is_outlier
OutlierFlags(cols, rows, thresholds) ==
    [c \in FlaggedCols(cols, rows, thresholds) |->
        [i \in 1..Len(rows) |-> is_outlier(rows[i][c], thresholds[c][1], thresholds[c][2])]]

\* NOAADataProcessor._detect_outliers
NOAA_detect_outliers(t) ==
    [op |-> "noaa", rows |-> NulledRows(t.cols, t.rows, NOAA_OUTLIER_THRESHOLDS),
     flags |-> OutlierFlags(t.cols, t.rows, NOAA_OUTLIER_THRESHOLDS)]

\* the thresholds dict cut down to the pollutant, .get(pollutant, (0, 10000))
PollutantThresholds(pollutant) ==
    IF pollutant \in DOMAIN OPENAQ_OUTLIER_THRESHOLDS
    THEN [c \in {pollutant} |-> OPENAQ_OUTLIER_THRESHOLDS[c]]
    ELSE [c \in {pollutant} |-> <<Rat(0), Rat(10000)>>]

\* OpenAQDataProcessor.detect_outliers
OpenAQ_detect_outliers(t, pollutant) ==
    IF pollutant \notin t.cols
    THEN [op |-> "openaq", rows |-> t.rows, flags |-> <<>>]
    ELSE [op |-> "openaq",
          rows |-> NulledRows(t.cols, t.rows, PollutantThresholds(pollutant)),
          flags |-> OutlierFlags(t.cols, t.rows, PollutantThresholds(pollutant))]

\* values around the bounds of each column
RawValues(c) ==
    CASE c = "temp_avg_c" -> {NaN, Rat(-61), Rat(-60), Rat(60), Rat(61)}
      [] c = "precip_mm" -> {NaN, Rat(0), Rat(2001)}
      [] c = "dewpoint_c" -> {NaN, Rat(99)}
      [] OTHER -> {NaN, Rat(-1), Rat(0), Rat(1000), Rat(1001)}

AllRawValues == UNION {RawValues(c) : c \in {"temp_avg_c", "precip_mm", "dewpoint_c", "pm25"}}
RawRows(cols) == {r \in [cols -> AllRawValues] : \A c \in cols : r[c] \in RawValues(c)}
RawTables(kind, cols) ==
    UNION {{[kind |-> kind, cols |-> cols, rows |-> rs] : rs \in [1..n -> RawRows(cols)]}
           : n \in 0..MaxRows}

-----------------------------------------------------------------------------
(* Gap-bounded interpolation: interpolate_missing_values on one numeric    *)
(* column (the loop at noaa_processor.py:328 treats each column alone).    *)
(* Series.interpolate(method="time", limit=limit) keeps pandas' defaults   *)
(* limit_direction="forward", limit_area=None.                             *)

MaxLen == 5
MaxLimit == 2
InterpValues == {NaN, Rat(0), Rat(12)}

\* df.set_index("date").sort_index(): the dates, ascending
SortedIndex(tbl) == SetToSortedSeq(DOMAIN tbl)
SortedColumn(tbl) == [i \in 1..Len(SortedIndex(tbl)) |-> tbl[SortedIndex(tbl)[i]]]

\* position of the nearest valid value before / after position i (0: none)
PrevValid(col, i) ==
    LET P == {j \in 1..(i - 1) : NotNull(col[j])}
    IN  IF P = {} THEN 0 ELSE CHOOSE j \in P : \A k \in P : k <= j
NextValid(col, i) ==
    LET P == {j \in (i + 1)..Len(col) : NotNull(col[j])}
    IN  IF P = {} THEN 0 ELSE CHOOSE j \in P : \A k \in P : j <= k

\* np.interp(x, xp, fp) at the index value of position i: on the line through
\* the neighbouring valid points, and fp[-1] to the right of the last one
np_interp(col, idx, i) ==
    LET p == PrevValid(col, i)
        n == NextValid(col, i)
    IN  IF n = 0 THEN col[p]
        ELSE RAdd(col[p],
                  RMul(RAdd(col[n], RMul(Rat(-1), col[p])),
                       Norm(idx[i] - idx[p], idx[n] - idx[p])))

\* pandas _interp_limit / start_nans: the missing positions that stay missing
\* are those before the first valid value and those with `lim` missing
\* positions right before them
preserve_nans_strict(col, i, lim) ==
    \/ PrevValid(col, i) = 0
    \/ i - PrevValid(col, i) >= lim
preserve_nans(col, i, lim) ==
    \/ PrevValid(col, i) = 0
    \/ i - PrevValid(col, i) > lim

\* Series.interpolate(method="time", limit=lim)
interpolate(col, idx, lim) ==
    IF \A i \in 1..Len(col) : IsNull(col[i]) THEN col
    ELSE [i \in 1..Len(col) |->
            IF NotNull(col[i]) THEN col[i]
            ELSE IF preserve_nans(col, i, lim) THEN NaN
            ELSE np_interp(col, idx, i)]

\* NOAADataProcessor.interpolate_missing_values, one column
interpolate_missing_values(tbl, lim) ==
    LET idx == SortedIndex(tbl)
        col == SortedColumn(tbl)
        missing_before == Card({i \in 1..Len(col) : IsNull(col[i])})
        out == IF missing_before = 0 THEN col ELSE interpolate(col, idx, lim)
        interpolated_count == missing_before - Card({i \in 1..Len(out) : IsNull(out[i])})
    IN  [done |-> TRUE, date |-> idx, v |-> out,
         has_flag_col |-> missing_before # 0 /\ interpolated_count > 0,
         interpolated |->
            IF missing_before # 0 /\ interpolated_count > 0
            THEN [i \in 1..Len(col) |-> IsNull(col[i]) /\ NotNull(out[i])]
            ELSE <<>>]

-----------------------------------------------------------------------------
(* Station matcher.                                                        *)
(*                                                                         *)
(* A catalog row is [LAT, LON, END], the cells as text of the csv file; a  *)
(* row of NOAAStationMatcher.df is [pos, LAT, LON, END, distance_km] with  *)
(* pos the row's position in the catalog (its USAF-WBAN identity).  All    *)
(* stations and targets lie on one meridian, where the haversine formula   *)
(* reduces to R * |dlat| (in radians).                                     *)

MaxCatalog == 3
MaxN == 2
EarthRadiusKm == 6371

\* pd.to_numeric(cell, errors="coerce")
to_numeric(text) ==
    CASE text = "-1" -> Rat(-1)
      [] text = "0" -> Rat(0)
      [] text = "1" -> Rat(1)
      [] text = "2" -> Rat(2)
      [] text = "20231231" -> Rat(20231231)
      [] text = "20240101" -> Rat(20240101)
      [] text = "20250601" -> Rat(20250601)
      [] OTHER -> NaN

\* matcher.py:52-53  END >= (current_year - 2) * 10000
current_year(today) == today \div 10000
EndIsRecent(end, today) == RLeq(Rat((current_year(today) - 2) * 10000), end) /\ NotNull(end)

\* NOAAStationMatcher._clean_station_data applied to the csv rows
RECURSIVE clean_station_data(_, _, _)
clean_station_data(cat, today, pos) ==
    IF pos > Len(cat) THEN <<>>
    ELSE LET lat == to_numeric(cat[pos].LAT)
             lon == to_numeric(cat[pos].LON)
             end == to_numeric(cat[pos].END)
             keep == NotNull(lat) /\ NotNull(lon) /\ EndIsRecent(end, today)
         IN  (IF keep
              THEN <<[pos |-> pos, LAT |-> lat, LON |-> lon, END |-> end, distance_km |-> NaN]>>
              ELSE <<>>) \o clean_station_data(cat, today, pos + 1)

\* kilometres per degree of latitude: R * pi / 180, to the kilometre
KmPerDegree == (EarthRadiusKm * 314) \div 18000

\* NOAAStationMatcher.haversine_distance for two points of equal longitude
haversine_distance(lat1, lon1, lat2, lon2) ==
    LET dlat == RAdd(lat2, RMul(Rat(-1), lat1))
    IN  RMul(Rat(KmPerDegree), IF RLess(dlat, Rat(0)) THEN RMul(Rat(-1), dlat) ELSE dlat)

\* self.df["distance_km"] = distances
with_distances(d, lat, lon) ==
    [i \in 1..Len(d) |->
        [d[i] EXCEPT !.distance_km = haversine_distance(lat, lon, d[i].LAT, d[i].LON)]]

\* self.df[self.df["distance_km"] < (max_distance_km or float("inf"))]
\* max_distance_km is [given, km]; None and 0 are falsy and give inf
within_limit(dist, max_distance_km) ==
    IF ~max_distance_km.given \/ max_distance_km.km = 0 THEN TRUE
    ELSE RLess(dist, Rat(max_distance_km.km))

valid_stations(d, max_distance_km) ==
    SelectSeq(d, LAMBDA r : within_limit(r.distance_km, max_distance_km))

Perms(n) == {p \in [1..n -> 1..n] : \A i, j \in 1..n : i # j => p[i] # p[j]}

\* valid.sort_values("distance_km"): kind defaults to "quicksort", which pandas
\* documents as not stable, so rows of equal distance may come in any order
sort_values(rows) ==
    {[i \in 1..Len(rows) |-> rows[p[i]]] : p \in
        {q \in Perms(Len(rows)) :
            \A i, j \in 1..Len(rows) :
                i < j => RLeq(rows[q[i]].distance_km, rows[q[j]].distance_km)}}

\* .head(n)
head(rows, n) == SubSeq(rows, 1, IF n < Len(rows) THEN n ELSE Len(rows))

\* the dict built per returned row (matcher.py:147-158)
station_dict(r) == [station_id |-> r.pos, lat |-> r.LAT, lon |-> r.LON,
                    distance_km |-> r.distance_km]

\* valid_stations.loc[valid_stations["distance_km"].idxmin()]: first minimum
idxmin(rows) ==
    CHOOSE i \in 1..Len(rows) :
        /\ \A j \in 1..Len(rows) : RLeq(rows[i].distance_km, rows[j].distance_km)
        /\ \A j \in 1..(i - 1) : rows[j].distance_km # rows[i].distance_km

CatalogRows ==
    {[LAT |-> "0", LON |-> "0", END |-> "20250601"],
     [LAT |-> "1", LON |-> "0", END |-> "20250601"],
     [LAT |-> "2", LON |-> "0", END |-> "20250601"],
     [LAT |-> "1", LON |-> "0", END |-> "20240101"],
     [LAT |-> "1", LON |-> "0", END |-> "20231231"],
     [LAT |-> "n/a", LON |-> "0", END |-> "20250601"],
     [LAT |-> "0", LON |-> "", END |-> "20250601"],
     [LAT |-> "0", LON |-> "0", END |-> ""]}
TargetLats == {0, 1}
MaxDistances == {[given |-> FALSE, km |-> 0], [given |-> TRUE, km |-> 0],
                 [given |-> TRUE, km |-> KmPerDegree], [given |-> TRUE, km |-> 200]}

-----------------------------------------------------------------------------
(* Idle values: what a component's variables hold in the specifications of *)
(* the other components.                                                   *)

FuseIdle ==
    /\ source = "idle" /\ columns = {} /\ station_dataframes = <<>>
    /\ stations_info = <<>> /\ fuse_op = "none" /\ result = <<>>
OutlierIdle ==
    /\ raw_table = [kind |-> "none", cols |-> {}, rows |-> <<>>]
    /\ flagged = [op |-> "none", rows |-> <<>>, flags |-> <<>>]
InterpIdle ==
    /\ series = <<>> /\ limit = 0
    /\ interp = [done |-> FALSE, date |-> <<>>, v |-> <<>>, has_flag_col |-> FALSE,
                 interpolated |-> <<>>]
MatchIdle ==
    /\ catalog = <<>> /\ now = 0 /\ df = <<>> /\ matcher_built = FALSE
    /\ query = [op |-> "none"] /\ stations = <<>>
DownloadIdle ==
    /\ s3_files = {} /\ will_fail = {} /\ cached = {} /\ use_cache = FALSE /\ pending = <<>>
    /\ worker = <<>> /\ lock = 0 /\ success_count = 0 /\ failed_count = 0
    /\ futures = <<>> /\ collected = {} /\ downloaded_files = <<>> /\ dl_pc = "idle"
AcquireIdle ==
    /\ noaa_cache = <<>> /\ s3_cache = <<>>
    /\ acq = [phase |-> "none"] /\ last_call = [called |-> FALSE]
PagesIdle == pg = [pc |-> "none"]
BatchIdle == batch = [pc |-> "none"]
CleanIdle == gsod = [pc |-> "none"]
AirIdle == air = [pc |-> "none"]
CityIdle == city = [pc |-> "none"]
MergeIdle == merge = [pc |-> "none"]
ApiIdle == api = [pc |-> "none"]
SharedIdle == shared = [pc |-> "none"]
PipelineIdle == AcquireIdle /\ PagesIdle /\ BatchIdle /\ CleanIdle /\ AirIdle /\ CityIdle /\ MergeIdle /\ ApiIdle /\ SharedIdle
CoreIdle == FuseIdle /\ OutlierIdle /\ InterpIdle /\ MatchIdle /\ DownloadIdle
SharedRestIdle == CoreIdle /\ AcquireIdle /\ PagesIdle /\ BatchIdle /\ CleanIdle /\ AirIdle /\ CityIdle /\ MergeIdle /\ ApiIdle
ApiRestIdle == CoreIdle /\ AcquireIdle /\ PagesIdle /\ BatchIdle /\ CleanIdle /\ AirIdle /\ CityIdle /\ MergeIdle /\ SharedIdle
MergeRestIdle == CoreIdle /\ AcquireIdle /\ PagesIdle /\ BatchIdle /\ CleanIdle /\ AirIdle /\ CityIdle /\ ApiIdle /\ SharedIdle
CityRestIdle == CoreIdle /\ AcquireIdle /\ PagesIdle /\ BatchIdle /\ CleanIdle /\ AirIdle /\ MergeIdle /\ ApiIdle /\ SharedIdle
AirRestIdle == CoreIdle /\ AcquireIdle /\ PagesIdle /\ BatchIdle /\ CleanIdle /\ CityIdle /\ MergeIdle /\ ApiIdle /\ SharedIdle
CleanRestIdle == CoreIdle /\ AcquireIdle /\ PagesIdle /\ BatchIdle /\ AirIdle /\ CityIdle /\ MergeIdle /\ ApiIdle /\ SharedIdle
BatchRestIdle == CoreIdle /\ AcquireIdle /\ PagesIdle /\ CleanIdle /\ AirIdle /\ CityIdle /\ MergeIdle /\ ApiIdle /\ SharedIdle
PageRestIdle == CoreIdle /\ AcquireIdle /\ BatchIdle /\ CleanIdle /\ AirIdle /\ CityIdle /\ MergeIdle /\ ApiIdle /\ SharedIdle
AcqRestIdle == CoreIdle /\ PagesIdle /\ BatchIdle /\ CleanIdle /\ AirIdle /\ CityIdle /\ MergeIdle /\ ApiIdle /\ SharedIdle

-----------------------------------------------------------------------------
(* Specification of the fusion step.                                       *)

FuseInit ==
    /\ source \in {"noaa", "openaq"}
    /\ columns \in IF source = "noaa"
                   THEN {{"temp_avg_c"}, {"temp_avg_c", "precip_mm"}}
                   ELSE {{"pm25"}}
    /\ \E n \in 1..MaxStations :
          /\ station_dataframes \in [1..n -> Tables(columns)]
          /\ stations_info \in [1..n -> Distances]
    /\ fuse_op = "none"
    /\ result = <<>>
    /\ OutlierIdle /\ InterpIdle /\ MatchIdle /\ DownloadIdle /\ PipelineIdle

\* processor.merge_multi_station_data(station_dfs, stations, quality_control=True)
NOAAMerge ==
    /\ source = "noaa" /\ fuse_op = "none"
    /\ result' = NOAA_merge_multi_station_data(station_dataframes, stations_info, columns, TRUE)
    /\ fuse_op' = "noaa_merge"
    /\ UNCHANGED <<source, columns, station_dataframes, stations_info>>
    /\ UNCHANGED <<outlierVars, interpVars, matchVars, dlVars, pipelineVars>>

\* noaa_pipeline.py:120-139  step 4 of process_city
NOAAProcessCityMerge ==
    /\ source = "noaa" /\ fuse_op = "none"
    /\ result' = IF Card(DOMAIN station_dataframes) > 1
                 THEN NOAA_merge_multi_station_data(station_dataframes, stations_info,
                                                    columns, TRUE)
                 ELSE NOAASingleStation(station_dataframes, columns)
    /\ fuse_op' = "noaa_pipeline"
    /\ UNCHANGED <<source, columns, station_dataframes, stations_info>>
    /\ UNCHANGED <<outlierVars, interpVars, matchVars, dlVars, pipelineVars>>

\* processor.merge_multi_station_data(station_dfs, stations_info)
OpenAQMerge ==
    /\ source = "openaq" /\ fuse_op = "none"
    /\ result' = OpenAQ_merge_multi_station_data(station_dataframes, stations_info, columns)
    /\ fuse_op' = "openaq_merge"
    /\ UNCHANGED <<source, columns, station_dataframes, stations_info>>
    /\ UNCHANGED <<outlierVars, interpVars, matchVars, dlVars, pipelineVars>>

\* openaq_pipeline.py:293-301  the fusion as the pipeline calls it: stations_info
\* is [{"sensor_id": k, "distance_m": 0}], entries from which the processor's
\* distance map (openaq_processor.py:238-245) takes no key
OpenAQPipelineMerge ==
    /\ source = "openaq" /\ fuse_op = "none"
    /\ result' = OpenAQ_merge_multi_station_data(station_dataframes, <<>>, columns)
    /\ fuse_op' = "openaq_pipeline"
    /\ UNCHANGED <<source, columns, station_dataframes, stations_info>>
    /\ UNCHANGED <<outlierVars, interpVars, matchVars, dlVars, pipelineVars>>

FuseNext == NOAAMerge \/ NOAAProcessCityMerge \/ OpenAQMerge \/ OpenAQPipelineMerge
SpecFuse == FuseInit /\ [][FuseNext]_vars

-----------------------------------------------------------------------------
(* Claims about fusion.                                                    *)

RECURSIVE SumOver(_, _)
SumOver(S, f) ==
    IF S = {} THEN 0
    ELSE LET x == CHOOSE y \in S : TRUE IN f[x] + SumOver(S \ {x}, f)

RECURSIVE ProdOver(_, _)
ProdOver(S, f) ==
    IF S = {} THEN 1
    ELSE LET x == CHOOSE y \in S : TRUE IN f[x] * ProdOver(S \ {x}, f)

SurvivingStations == DOMAIN station_dataframes
\* the stations with a non-null value of column c on date d
Contributors(d, c) ==
    {s \in SurvivingStations :
        d \in DOMAIN station_dataframes[s] /\ NotNull(station_dataframes[s][d][c])}
\* max(distance_km, 0.1), in metres
ClampedMetres(s) == IF stations_info[s] < 100 THEN 100 ELSE stations_info[s]
\* w_s = 1 / max(distance_km_s, 0.1), times the product of all clamped distances
ScaledW(s) == ProdOver(SurvivingStations \ {s}, [t \in SurvivingStations |-> ClampedMetres(t)])
ResultDates == {result[i].date : i \in 1..Len(result)}

\* C1: with two or more surviving stations the weather fusion yields one row per
\* date; each core field of the row is sum(w_s * v_s) / sum(w_s) over exactly the
\* stations with a non-null value, w_s = 1 / max(distance_km_s, 0.1); it is null
\* iff no station has a value, and the sole contributor's value if there is one.
C1_WeightedMean ==
    (fuse_op = "noaa_merge" /\ Card(SurvivingStations) >= 2) =>
        /\ ResultDates = AllDates(station_dataframes)
        /\ Len(result) = Card(AllDates(station_dataframes))
        /\ \A i \in 1..Len(result) : \A c \in columns :
              LET r == result[i].vals[c]
                  S == Contributors(result[i].date, c)
                  v(s) == station_dataframes[s][result[i].date][c]
                  w == [s \in S |-> ScaledW(s)]
                  wv == [s \in S |-> ScaledW(s) * v(s)[1]]
              IN  /\ IsNull(r) <=> S = {}
                  /\ S # {} => r[1] * SumOver(S, w) = r[2] * SumOver(S, wv)
                  /\ \A s \in S : S = {s} => r = v(s)

C1_Witness ==
    /\ fuse_op = "noaa_merge" /\ Card(SurvivingStations) >= 2
    /\ \E i \in 1..Len(result) : \E c \in columns :
          LET S == Contributors(result[i].date, c)
          IN  /\ Card(S) >= 2
              /\ \A s \in S : station_dataframes[s][result[i].date][c] # result[i].vals[c]
              /\ \E s, t \in S : ClampedMetres(s) # ClampedMetres(t)
              /\ \E s \in S : stations_info[s] < 100

\* the number of tracked fields with at least one contributor on the row's date
FieldsWithContributor(i) == Card({c \in columns : Contributors(result[i].date, c) # {}})
InUnitInterval(q) == NotNull(q) /\ RLeq(Rat(0), q) /\ RLeq(q, Rat(1))
IsFraction(q, n, d) == NotNull(q) /\ q[1] * d = q[2] * n
MergeDone == fuse_op \in {"noaa_merge", "openaq_merge"}

C3_SourceCount ==
    fuse_op \in {"noaa_merge", "noaa_pipeline"} =>
        \A i \in 1..Len(result) : \A c \in columns :
            /\ result[i].source_count[c] = Card(Contributors(result[i].date, c))
            /\ result[i].source_count[c] = 0 <=> IsNull(result[i].vals[c])

-----------------------------------------------------------------------------
(* Specification of the outlier detectors.                                 *)

OutlierInit ==
    /\ \E kind \in {"noaa", "openaq"} :
          \E cols \in (IF kind = "noaa"
                       THEN {{"temp_avg_c"}, {"temp_avg_c", "precip_mm"},
                             {"temp_avg_c", "dewpoint_c"}}
                       ELSE {{"pm25"}}) :
              raw_table \in RawTables(kind, cols)
    /\ flagged = [op |-> "none", rows |-> <<>>, flags |-> <<>>]
    /\ FuseIdle /\ InterpIdle /\ MatchIdle /\ DownloadIdle /\ PipelineIdle

\* result = self._detect_outliers(result)
NOAADetectOutliers ==
    /\ raw_table.kind = "noaa" /\ flagged.op = "none"
    /\ flagged' = NOAA_detect_outliers(raw_table)
    /\ UNCHANGED <<raw_table, fuseVars, interpVars, matchVars, dlVars, pipelineVars>>

\* df = self.processor.detect_outliers(df, pollutant)
OpenAQDetectOutliers ==
    /\ raw_table.kind = "openaq" /\ flagged.op = "none"
    /\ flagged' = OpenAQ_detect_outliers(raw_table, "pm25")
    /\ UNCHANGED <<raw_table, fuseVars, interpVars, matchVars, dlVars, pipelineVars>>

OutlierNext == NOAADetectOutliers \/ OpenAQDetectOutliers
SpecOutlier == OutlierInit /\ [][OutlierNext]_vars

\* the range-checked columns of the input table and their inclusive bounds
CheckedCols ==
    raw_table.cols \cap
        (IF raw_table.kind = "noaa" THEN DOMAIN NOAA_OUTLIER_THRESHOLDS
         ELSE DOMAIN OPENAQ_OUTLIER_THRESHOLDS)
RangeOf(c) ==
    IF raw_table.kind = "noaa" THEN NOAA_OUTLIER_THRESHOLDS[c] ELSE OPENAQ_OUTLIER_THRESHOLDS[c]
InRange(v, c) == RLeq(RangeOf(c)[1], v) /\ RLeq(v, RangeOf(c)[2])
\* the value of {c}_is_outlier in row i is b
FlagIs(c, i, b) == c \in DOMAIN flagged.flags /\ flagged.flags[c][i] = b

\* C4 as stated: the detectors keep the row count; a non-null value inside
\* [min, max] is unchanged with is_outlier false, a non-null value outside becomes
\* null with is_outlier true, a null value stays null with is_outlier false.
C4_Outliers ==
    flagged.op # "none" =>
        /\ Len(flagged.rows) = Len(raw_table.rows)
        /\ \A i \in 1..Len(raw_table.rows) : \A c \in CheckedCols :
              LET v == raw_table.rows[i][c]
                  o == flagged.rows[i][c]
              IN  /\ (NotNull(v) /\ InRange(v, c)) => (o = v /\ FlagIs(c, i, FALSE))
                  /\ (NotNull(v) /\ ~InRange(v, c)) => (IsNull(o) /\ FlagIs(c, i, TRUE))
                  /\ IsNull(v) => (IsNull(o) /\ FlagIs(c, i, FALSE))

-----------------------------------------------------------------------------
(* Specification of the interpolation step.                                *)

InterpInit ==
    /\ \E D \in SUBSET (1..(MaxLen + 1)) :
          /\ D # {} /\ Card(D) <= MaxLen
          /\ series \in [D -> InterpValues]
    /\ limit \in 1..MaxLimit
    /\ interp = [done |-> FALSE, date |-> <<>>, v |-> <<>>, has_flag_col |-> FALSE,
                 interpolated |-> <<>>]
    /\ FuseIdle /\ OutlierIdle /\ MatchIdle /\ DownloadIdle /\ PipelineIdle

\* final_df = self.processor.interpolate_missing_values(final_df, limit=interpolation_limit)
Interpolate ==
    /\ series # <<>> /\ ~interp.done
    /\ interp' = interpolate_missing_values(series, limit)
    /\ UNCHANGED <<series, limit, fuseVars, outlierVars, matchVars, dlVars, pipelineVars>>

InterpNext == Interpolate
SpecInterp == InterpInit /\ [][InterpNext]_vars

\* the input column in date order, and the maximal runs of missing days in it
InCol == SortedColumn(series)
InIdx == SortedIndex(series)
IsRun(a, b) ==
    /\ a <= b
    /\ \A i \in a..b : IsNull(InCol[i])
    /\ (a = 1 \/ NotNull(InCol[a - 1]))
    /\ (b = Len(InCol) \/ NotNull(InCol[b + 1]))
Runs == {ab \in (1..Len(InCol)) \X (1..Len(InCol)) : IsRun(ab[1], ab[2])}
FlaggedInterpolated(i) == interp.has_flag_col /\ interp.interpolated[i]

\* C5 as stated: no position of a maximal run of missing days longer than
\* limit is filled: after the call each is still null and not flagged.
C5_LongRunsUntouched ==
    interp.done =>
        \A ab \in Runs :
            (ab[2] - ab[1] + 1 > limit) =>
                \A i \in ab[1]..ab[2] : IsNull(interp.v[i]) /\ ~FlaggedInterpolated(i)

\* C30: interpolate_missing_values fills a missing value only when the series
\* has a valid value both before and after its run: a run of missing days at
\* the start or at the end of the series stays null and unflagged, whatever
\* its length.
C30_EdgeRunsUntouched ==
    interp.done =>
        \A ab \in Runs :
            (ab[1] = 1 \/ ab[2] = Len(InCol)) =>
                \A i \in ab[1]..ab[2] : IsNull(interp.v[i]) /\ ~FlaggedInterpolated(i)

\* value y at position i lies on the line through positions p and n of the input
OnLine(y, i, p, n) ==
    /\ NotNull(y)
    /\ RMul(RAdd(y, RMul(Rat(-1), InCol[p])), Rat(InIdx[n] - InIdx[p]))
         = RMul(RAdd(InCol[n], RMul(Rat(-1), InCol[p])), Rat(InIdx[i] - InIdx[p]))

-----------------------------------------------------------------------------
(* Specification of the station matcher.                                   *)

MatchInit ==
    /\ \E n \in 1..MaxCatalog : catalog \in [1..n -> CatalogRows]
    /\ now = 20261104
    /\ df = <<>> /\ matcher_built = FALSE
    /\ query = [op |-> "none"] /\ stations = <<>>
    /\ FuseIdle /\ OutlierIdle /\ InterpIdle /\ DownloadIdle /\ PipelineIdle

\* NOAAStationMatcher.__init__: read_csv, then _clean_station_data
BuildMatcher ==
    /\ ~matcher_built
    /\ df' = clean_station_data(catalog, now, 1)
    /\ matcher_built' = TRUE
    /\ UNCHANGED <<catalog, now, query, stations>>
    /\ UNCHANGED <<fuseVars, outlierVars, interpVars, dlVars, pipelineVars>>

\* NOAAStationMatcher.find_nearest_stations(lat, lon, n, max_distance_km)
FindNearestStations ==
    /\ matcher_built
    /\ \E lat \in TargetLats, n \in 0..MaxN, m \in MaxDistances :
          LET d == with_distances(df, Rat(lat), Rat(0))
          IN  /\ df' = d
              /\ query' = [op |-> "find_nearest_stations", lat |-> lat, n |-> n,
                           max_distance_km |-> m]
              /\ \E sorted \in sort_values(valid_stations(d, m)) :
                    stations' = [i \in 1..Len(head(sorted, n)) |->
                                    station_dict(head(sorted, n)[i])]
    /\ UNCHANGED <<catalog, now, matcher_built>>
    /\ UNCHANGED <<fuseVars, outlierVars, interpVars, dlVars, pipelineVars>>

\* NOAAStationMatcher.find_nearest_station(lat, lon, max_distance_km)
FindNearestStation ==
    /\ matcher_built
    /\ \E lat \in TargetLats, m \in MaxDistances :
          LET d == with_distances(df, Rat(lat), Rat(0))
              v == valid_stations(d, m)
          IN  /\ df' = d
              /\ query' = [op |-> "find_nearest_station", lat |-> lat, n |-> 1,
                           max_distance_km |-> m]
              /\ stations' = IF v = <<>> THEN <<>> ELSE <<station_dict(v[idxmin(v)])>>
    /\ UNCHANGED <<catalog, now, matcher_built>>
    /\ UNCHANGED <<fuseVars, outlierVars, interpVars, dlVars, pipelineVars>>

MatchNext == BuildMatcher \/ FindNearestStations \/ FindNearestStation
SpecMatch == MatchInit /\ [][MatchNext]_vars

\* C7 as stated: for every n >= 0 and every numeric max_distance_km >= 0 the
\* candidates find_nearest_stations returns are in non-decreasing order of
\* distance_km and each has distance_km strictly below max_distance_km.
C7_SortedWithinLimit ==
    (query.op = "find_nearest_stations" /\ query.max_distance_km.given) =>
        /\ \A i, j \in 1..Len(stations) :
              i < j => RLeq(stations[i].distance_km, stations[j].distance_km)
        /\ \A i \in 1..Len(stations) :
              RLess(stations[i].distance_km, Rat(query.max_distance_km.km))

\* distance of the catalog row at position p from the query's target, computed
\* from the catalog text
TargetDistance(p) == KmPerDegree * Abs(to_numeric(catalog[p].LAT)[1] - query.lat)
\* the claim's eligibility: numeric coordinates, END within two years of today
NumericText(t) == t \in {"-1", "0", "1", "2", "20231231", "20240101", "20250601"}
Eligible(p) ==
    /\ NumericText(catalog[p].LAT) /\ NumericText(catalog[p].LON)
    /\ NumericText(catalog[p].END)
    /\ to_numeric(catalog[p].END)[1] >= now - 20000
\* the stations the matcher kept, and those of them under the query's limit
Kept == {df[i].pos : i \in 1..Len(df)}
Qualifies(p) ==
    /\ p \in Kept
    /\ query.max_distance_km.given => TargetDistance(p) < query.max_distance_km.km
\* (distance ascending, catalog position ascending)
Before(p, q) ==
    \/ TargetDistance(p) < TargetDistance(q)
    \/ TargetDistance(p) = TargetDistance(q) /\ p < q
Qualifying == {p \in 1..Len(catalog) : Qualifies(p)}
Rank(p) == Card({q \in Qualifying : Before(q, p)}) + 1

\* C8 as stated, for a limit that is absent or positive (the limit 0 is the
\* case of C7): find_nearest_stations returns exactly the first n entries of
\* the qualifying stations ordered by (distance, catalog position): min(n, q)
\* candidates, none closer omitted, ties in catalog order.
C8_FirstNStable ==
    (query.op = "find_nearest_stations"
        /\ (query.max_distance_km.given => query.max_distance_km.km > 0)) =>
        /\ Len(stations) = (IF query.n < Card(Qualifying) THEN query.n ELSE Card(Qualifying))
        /\ \A i \in 1..Len(stations) :
              /\ stations[i].station_id \in Qualifying
              /\ Rank(stations[i].station_id) = i

\* C9 as stated: a station is returned by find_nearest_station(s) only if its
\* latitude and longitude are numeric and its END date is no more than 2 years
\* before the current date; any other station is dropped when the matcher is
\* built and never returned.
C9_OnlyRecentStations ==
    /\ matcher_built => \A i \in 1..Len(df) : Eligible(df[i].pos)
    /\ \A i \in 1..Len(stations) : Eligible(stations[i].station_id)

-----------------------------------------------------------------------------
(* Bulk-archive download: OpenAQS3Downloader.download_year_data.           *)
(*                                                                         *)
(* Keys are 1..N in listing order.  Each pool thread runs                  *)
(* download_single_file for the keys it takes from the executor's queue;   *)
(* success_count[0] += 1 is a read and a write of the shared cell.         *)

MaxFiles == 3
MaxWorkers == 2

IdleWorker == [pc |-> "idle", key |-> 0, tmp |-> 0]

\* `with lock:` may be entered when no thread holds the lock
lock_acquire_unguarded(holder) == TRUE
lock_acquire(holder) == holder = 0

DownloadInit ==
    /\ \E n \in 0..MaxFiles :
          /\ s3_files = 1..n
          /\ will_fail \in SUBSET (1..n)
          /\ cached \in {{}, {1} \cap (1..n)}
    /\ use_cache \in BOOLEAN
    /\ \E w \in 1..MaxWorkers : worker = [t \in 1..w |-> IdleWorker]
    /\ pending = <<>> /\ lock = 0 /\ success_count = 0 /\ failed_count = 0
    /\ futures = <<>> /\ collected = {} /\ downloaded_files = <<>>
    /\ dl_pc = "start"
    /\ FuseIdle /\ OutlierIdle /\ InterpIdle /\ MatchIdle /\ PipelineIdle

\* s3_downloader.py:107-117, 147-148: list, return [] on an empty listing,
\* else submit one task per key
ListAndSubmit ==
    /\ dl_pc = "start"
    /\ IF s3_files = {}
       THEN /\ dl_pc' = "returned"
            /\ UNCHANGED <<pending, futures>>
       ELSE /\ dl_pc' = "collect"
            /\ pending' = SetToSortedSeq(s3_files)
            /\ futures' = [k \in s3_files |-> "running"]
    /\ UNCHANGED <<s3_files, will_fail, cached, use_cache, worker, lock, success_count,
                   failed_count, collected, downloaded_files>>
    /\ UNCHANGED <<fuseVars, outlierVars, interpVars, matchVars, pipelineVars>>

\* a pool thread takes the next work item
TakeTask(t) ==
    /\ worker[t].pc = "idle" /\ pending # <<>>
    /\ worker' = [worker EXCEPT ![t] = [pc |-> "check_cache", key |-> Head(pending), tmp |-> 0]]
    /\ pending' = Tail(pending)
    /\ UNCHANGED <<s3_files, will_fail, cached, use_cache, lock, success_count,
                   failed_count, futures, collected, downloaded_files, dl_pc>>
    /\ UNCHANGED <<fuseVars, outlierVars, interpVars, matchVars, pipelineVars>>

\* s3_downloader.py:123  if use_cache and local_path.exists()
CheckCache(t) ==
    /\ worker[t].pc = "check_cache"
    /\ worker' = [worker EXCEPT ![t].pc =
                    IF use_cache /\ worker[t].key \in cached THEN "lock_path" ELSE "get_object"]
    /\ UNCHANGED <<s3_files, will_fail, cached, use_cache, pending, lock, success_count,
                   failed_count, futures, collected, downloaded_files, dl_pc>>
    /\ UNCHANGED <<fuseVars, outlierVars, interpVars, matchVars, pipelineVars>>

\* s3_downloader.py:128-130, 140  get_object and read, or the exception
GetObject(t) ==
    /\ worker[t].pc = "get_object"
    /\ worker' = [worker EXCEPT ![t].pc =
                    IF worker[t].key \in will_fail THEN "lock_none" ELSE "write_file"]
    /\ UNCHANGED <<s3_files, will_fail, cached, use_cache, pending, lock, success_count,
                   failed_count, futures, collected, downloaded_files, dl_pc>>
    /\ UNCHANGED <<fuseVars, outlierVars, interpVars, matchVars, pipelineVars>>

\* s3_downloader.py:132-134  write the body to local_path
WriteFile(t) ==
    /\ worker[t].pc = "write_file"
    /\ cached' = cached \cup {worker[t].key}
    /\ worker' = [worker EXCEPT ![t].pc = "lock_path"]
    /\ UNCHANGED <<s3_files, will_fail, use_cache, pending, lock, success_count,
                   failed_count, futures, collected, downloaded_files, dl_pc>>
    /\ UNCHANGED <<fuseVars, outlierVars, interpVars, matchVars, pipelineVars>>

\* `with lock:` entered, and the load of the counter cell
\* (lines 124-125, 136-137 for success_count; 141-142 for failed_count)
LockAndRead(t) ==
    /\ worker[t].pc \in {"lock_path", "lock_none"}
    /\ lock_acquire(lock)
    /\ lock' = t
    /\ worker' = [worker EXCEPT
                    ![t].tmp = IF worker[t].pc = "lock_path" THEN success_count
                               ELSE failed_count,
                    ![t].pc = IF worker[t].pc = "lock_path" THEN "store_path" ELSE "store_none"]
    /\ UNCHANGED <<s3_files, will_fail, cached, use_cache, pending, success_count,
                   failed_count, futures, collected, downloaded_files, dl_pc>>
    /\ UNCHANGED <<fuseVars, outlierVars, interpVars, matchVars, pipelineVars>>

\* the store of counter + 1 and the end of the with block
StoreAndUnlock(t) ==
    /\ worker[t].pc \in {"store_path", "store_none"}
    /\ success_count' = IF worker[t].pc = "store_path" THEN worker[t].tmp + 1
                        ELSE success_count
    /\ failed_count' = IF worker[t].pc = "store_none" THEN worker[t].tmp + 1
                       ELSE failed_count
    /\ lock' = 0
    /\ worker' = [worker EXCEPT
                    ![t].pc = IF worker[t].pc = "store_path" THEN "return_path"
                              ELSE "return_none"]
    /\ UNCHANGED <<s3_files, will_fail, cached, use_cache, pending, futures, collected,
                   downloaded_files, dl_pc>>
    /\ UNCHANGED <<fuseVars, outlierVars, interpVars, matchVars, pipelineVars>>

\* return local_path / return None: the task's future completes
ReturnResult(t) ==
    /\ worker[t].pc \in {"return_path", "return_none"}
    /\ futures' = [futures EXCEPT ![worker[t].key] =
                     IF worker[t].pc = "return_path" THEN "path" ELSE "none"]
    /\ worker' = [worker EXCEPT ![t] = IdleWorker]
    /\ UNCHANGED <<s3_files, will_fail, cached, use_cache, pending, lock, success_count,
                   failed_count, collected, downloaded_files, dl_pc>>
    /\ UNCHANGED <<fuseVars, outlierVars, interpVars, matchVars, pipelineVars>>

\* s3_downloader.py:150-153  one turn of the loop over as_completed(...)
CollectFuture(k) ==
    /\ dl_pc = "collect"
    /\ k \in DOMAIN futures /\ k \notin collected /\ futures[k] # "running"
    /\ collected' = collected \cup {k}
    /\ downloaded_files' = IF futures[k] = "path" THEN Append(downloaded_files, k)
                           ELSE downloaded_files
    /\ UNCHANGED <<s3_files, will_fail, cached, use_cache, pending, worker, lock,
                   success_count, failed_count, futures, dl_pc>>
    /\ UNCHANGED <<fuseVars, outlierVars, interpVars, matchVars, pipelineVars>>

\* s3_downloader.py:155-156  every future consumed: leave the pool, return
ReturnDownloaded ==
    /\ dl_pc = "collect" /\ collected = s3_files
    /\ dl_pc' = "returned"
    /\ UNCHANGED <<s3_files, will_fail, cached, use_cache, pending, worker, lock,
                   success_count, failed_count, futures, collected, downloaded_files>>
    /\ UNCHANGED <<fuseVars, outlierVars, interpVars, matchVars, pipelineVars>>

DownloadNext ==
    \/ ListAndSubmit
    \/ \E t \in DOMAIN worker : TakeTask(t)
    \/ \E t \in DOMAIN worker : CheckCache(t)
    \/ \E t \in DOMAIN worker : GetObject(t)
    \/ \E t \in DOMAIN worker : WriteFile(t)
    \/ \E t \in DOMAIN worker : LockAndRead(t)
    \/ \E t \in DOMAIN worker : StoreAndUnlock(t)
    \/ \E t \in DOMAIN worker : ReturnResult(t)
    \/ \E k \in s3_files : CollectFuture(k)
    \/ ReturnDownloaded
SpecDownload == DownloadInit /\ [][DownloadNext]_vars

\* the objects that fail to download: their fetch raises and no cached copy
\* is used in its place (a failing object's file is never written, so a
\* cached failing key was cached from the start)
FailedObjects == {k \in s3_files : k \in will_fail /\ ~(use_cache /\ k \in cached)}
PathsReturned == {downloaded_files[i] : i \in 1..Len(downloaded_files)}

\* C10: whatever the interleaving and the pool width, download_year_data
\* returns exactly one path per object that succeeded and none for a failed
\* one (N - F paths), and the lock-guarded tallies end with failed_count = F
\* and success_count = N - F.
C10_BatchResult ==
    dl_pc = "returned" =>
        /\ Len(downloaded_files) = Card(s3_files) - Card(FailedObjects)
        /\ PathsReturned = s3_files \ FailedObjects
        /\ failed_count = Card(FailedObjects)
        /\ success_count = Card(s3_files) - Card(FailedObjects)

C10_Witness ==
    /\ dl_pc = "returned"
    /\ Len(worker) >= 2
    /\ Card(FailedObjects) >= 1
    /\ Len(downloaded_files) >= 2
    /\ downloaded_files[1] > downloaded_files[2]

-----------------------------------------------------------------------------
(* Acquisition runs: the point-HTTP client (noaa/client.py), the loop of   *)
(* NOAACityPipeline._download_city_data over stations and years, and the   *)
(* bulk client's download_year_data for one archive location.  A file is   *)
(* "absent", holds a complete response body ("body"), or is "partial":     *)
(* created by open(..., "wb") and not written to the end.                  *)

MaxAcqStations == 2
NextRun == [none |-> "first", first |-> "second"]   \* a run and its repetition
AcqYears == <<1, 2>>                      \* range(start_year, end_year + 1)
Bodies == {"body"}
None == <<0, 0>>

\* what the network and the disk do to one download_year call that gets as
\* far as requests.get: the response, and how writing the cache file ends
HttpErrors == {"http_error", "timeout", "connection_error"}
YearOutcomes ==
    [http : HttpErrors, write : {"ok"}]
    \cup [http : Bodies, write : {"ok", "open_failed", "write_failed"}]

\* noaa/client.py:74-79  the except clauses: HTTPError, then every Exception
caught_http_error_only(exc) == exc = "http_error"
caught(exc) == exc \in HttpErrors \cup {"open_failed", "write_failed"}

\* noaa/client.py:23-79  download_year on the cache directory `files`;
\* output_path is the pair <<station_id, year>>
download_year(files, year, station_id, use_cache_arg, o) ==
    LET output_path == <<station_id, year>>
        exc == IF o.http \in HttpErrors THEN o.http
               ELSE IF o.write # "ok" THEN o.write ELSE "none"
        after == IF o.http \in HttpErrors \/ o.write = "open_failed" THEN files
                 ELSE IF o.write = "write_failed"
                      THEN [files EXCEPT ![output_path] = "partial"]
                      ELSE [files EXCEPT ![output_path] = o.http]
    IN  IF use_cache_arg /\ files[output_path] # "absent"
        THEN [ret |-> output_path, files |-> files, requested |-> FALSE,
              raised |-> FALSE, exc |-> "none"]
        ELSE IF exc = "none"
        THEN [ret |-> output_path, files |-> after, requested |-> TRUE,
              raised |-> FALSE, exc |-> exc]
        ELSE [ret |-> None, files |-> after, requested |-> TRUE,
              raised |-> ~caught(exc), exc |-> exc]

\* noaa/client.py:81-106  download_city_year for the stations st..ids of one
\* year; outs[st] is what happens to the request for station st
RECURSIVE download_city_year(_, _, _, _, _)
download_city_year(files, year, ids, outs, st) ==
    IF st > ids
    THEN [files |-> files, downloaded |-> <<>>, raised |-> FALSE, errors |-> {}]
    ELSE LET r == download_year(files, year, st, TRUE, outs[st])
             rest == download_city_year(r.files, year, ids, outs, st + 1)
             here == IF r.exc # "none" THEN {st} ELSE {}
         IN  IF r.raised
             THEN [files |-> r.files, downloaded |-> <<>>, raised |-> TRUE, errors |-> here]
             ELSE [files |-> rest.files,
                   downloaded |-> (IF r.ret # None THEN <<r.ret>> ELSE <<>>) \o rest.downloaded,
                   raised |-> rest.raised,
                   errors |-> here \cup rest.errors]

\* s3_downloader.py:56-86  _list_s3_files: the archive holds one object, under
\* the first year's prefix; a failed listing is logged and gives []
S3Archive == {AcqYears[1]}
list_s3_files(year, listing) == IF listing = "ok" THEN {year} \cap S3Archive ELSE {}

\* s3_downloader.py:88-156  download_year_data for one year, on a pool that
\* runs its single task to the end
S3Outcomes == [listing : {"ok", "failed"}, get : {"body", "get_failed"}]
download_year_data(files, year, use_cache_arg, o) ==
    LET keys == list_s3_files(year, o.listing)
        hit == use_cache_arg /\ files[year] # "absent"
    IN  IF keys = {} THEN [paths |-> <<>>, files |-> files, list |-> 1, get |-> 0]
        ELSE IF hit THEN [paths |-> <<year>>, files |-> files, list |-> 1, get |-> 0]
        ELSE IF o.get = "body"
        THEN [paths |-> <<year>>, files |-> [files EXCEPT ![year] = "body"],
              list |-> 1, get |-> 1]
        ELSE [paths |-> <<>>, files |-> files, list |-> 1, get |-> 1]

AcqUnits == {<<st, yr>> : st \in 1..MaxAcqStations, yr \in {AcqYears[k] : k \in 1..Len(AcqYears)}}
StationAt(i) == ((i - 1) \div Len(AcqYears)) + 1
YearAt(i) == AcqYears[((i - 1) % Len(AcqYears)) + 1]

AcquireInit ==
    /\ noaa_cache = [u \in AcqUnits |-> "absent"]
    /\ s3_cache = [yr \in S3Archive |-> "absent"]
    /\ \E n \in 1..MaxAcqStations :
          acq = [phase |-> "idle", run |-> "none", station_ids |-> n, i |-> 0, j |-> 0,
                 station_files |-> <<>>, results |-> <<>>, s3_files |-> <<>>,
                 errors |-> {}, http_get |-> 0, list_calls |-> 0, get_object |-> 0,
                 modified |-> FALSE, warm |-> FALSE]
    /\ last_call = [called |-> FALSE, returned |-> {}]
    /\ AcqRestIdle

\* the files a run with these arguments asks for
RunUnits == {u \in AcqUnits : u[1] <= acq.station_ids}
IsBody(c) == c \in Bodies

\* noaa_pipeline.py:177-181  _download_city_data is entered (a new run with
\* the same arguments); the tallies of the run start at zero
StartRun ==
    /\ acq.phase \in {"idle", "done"} /\ acq.run \in DOMAIN NextRun
    /\ acq' = [acq EXCEPT !.phase = "noaa", !.run = NextRun[@], !.i = 1, !.j = 0,
                          !.station_files = <<>>, !.results = <<>>, !.s3_files = <<>>,
                          !.errors = {}, !.http_get = 0, !.list_calls = 0,
                          !.get_object = 0, !.modified = FALSE,
                          !.warm = /\ \A u \in RunUnits : IsBody(noaa_cache[u])
                                   /\ \A yr \in DOMAIN s3_cache : IsBody(s3_cache[yr])]
    /\ UNCHANGED <<noaa_cache, s3_cache, last_call, acqRest>>

\* noaa_pipeline.py:183-193  one turn of the loops over station_ids and
\* years: a download_year call (use_cache left at its default), the append
\* of its path and, after a station's last year, the entry in results
DownloadCityStep(o) ==
    /\ acq.phase = "noaa"
    /\ LET st == StationAt(acq.i)
           yr == YearAt(acq.i)
           r == download_year(noaa_cache, yr, st, TRUE, o)
           station_files == IF r.ret # None THEN Append(acq.station_files, r.ret)
                            ELSE acq.station_files
           last_year == (acq.i % Len(AcqYears)) = 0
           last_turn == acq.i = acq.station_ids * Len(AcqYears)
           results == IF last_year /\ station_files # <<>>
                      THEN acq.results @@ (st :> station_files) ELSE acq.results
       IN  /\ noaa_cache' = r.files
           /\ last_call' = [called |-> TRUE, path |-> <<st, yr>>, ret |-> r.ret,
                            requested |-> r.requested, raised |-> r.raised, exc |-> r.exc,
                            before |-> noaa_cache[<<st, yr>>], after |-> r.files[<<st, yr>>],
                            again |-> <<st, yr>> \in last_call.returned,
                            returned |-> last_call.returned \cup ({r.ret} \ {None})]
           /\ acq' = IF r.raised
                     THEN [acq EXCEPT !.phase = "raised",
                                      !.http_get = @ + 1, !.errors = @ \cup {<<st, yr>>}]
                     ELSE [acq EXCEPT
                             !.phase = IF last_turn THEN "s3" ELSE "noaa",
                             !.i = IF last_turn THEN 0 ELSE @ + 1,
                             !.j = IF last_turn THEN 1 ELSE 0,
                             !.station_files = IF last_year THEN <<>> ELSE station_files,
                             !.results = results,
                             !.errors = IF r.exc # "none" THEN @ \cup {<<st, yr>>} ELSE @,
                             !.http_get = IF r.requested THEN @ + 1 ELSE @,
                             !.modified = @ \/ (noaa_cache[<<st, yr>>] # "absent"
                                                /\ r.files[<<st, yr>>] # noaa_cache[<<st, yr>>])]
    /\ UNCHANGED <<s3_cache, acqRest>>

\* s3_downloader.py:196-199  one turn of the loop over the years in
\* download_stations_for_city: a download_year_data call
S3DownloadYear(o) ==
    /\ acq.phase = "s3"
    /\ LET yr == AcqYears[acq.j]
           r == download_year_data(s3_cache, yr, TRUE, o)
           last_turn == acq.j = Len(AcqYears)
       IN  /\ s3_cache' = r.files
           /\ acq' = [acq EXCEPT
                        !.phase = IF last_turn THEN "done" ELSE "s3",
                        !.j = IF last_turn THEN 0 ELSE @ + 1,
                        !.s3_files = @ \o r.paths,
                        !.list_calls = @ + r.list,
                        !.get_object = @ + r.get,
                        !.modified = @ \/ (r.paths # <<>> /\ s3_cache[yr] # "absent"
                                           /\ r.files[yr] # s3_cache[yr])]
    /\ UNCHANGED <<noaa_cache, last_call, acqRest>>

\* noaa/client.py:81-106  a download_city_year call for one year by a
\* caller that uses the client without the pipeline, and one repetition
DownloadCityYear(year, outs) ==
    /\ acq.phase = "idle" \/ (acq.phase = "city_year" /\ ~acq.repeated)
    /\ LET r == download_city_year(noaa_cache, year, acq.station_ids, outs, 1)
       IN  /\ noaa_cache' = r.files
           /\ acq' = [phase |-> IF r.raised THEN "raised" ELSE "city_year", year |-> year,
                      repeated |-> acq.phase = "city_year",
                      station_ids |-> acq.station_ids, downloaded |-> r.downloaded,
                      errors |-> r.errors]
    /\ UNCHANGED <<s3_cache, last_call, acqRest>>

AcquireNext ==
    \/ StartRun
    \/ \E o \in YearOutcomes : DownloadCityStep(o)
    \/ \E o \in S3Outcomes : S3DownloadYear(o)
    \/ \E year \in {AcqYears[k] : k \in 1..Len(AcqYears)} :
          \E outs \in [1..acq.station_ids -> YearOutcomes] : DownloadCityYear(year, outs)
SpecAcquire == AcquireInit /\ [][AcquireNext]_vars

\* C11: a second run with the same arguments, started on the cache a first
\* run left with every file complete, makes no network request of any kind
\* (no HTTP GET, no archive listing, no object fetch) and changes no cached
\* file.
C11_WarmRunNoNetwork ==
    (acq.phase = "done" /\ acq.run = "second" /\ acq.warm) =>
        /\ acq.http_get = 0 /\ acq.list_calls = 0 /\ acq.get_object = 0
        /\ ~acq.modified

\* C12: when download_year returns a path, the file at that path holds the
\* response body; and a call for a path that an earlier call has returned
\* returns the same path, makes no HTTP request and leaves the file as it was.
C12_PersistedBeforeReturned ==
    (last_call.called /\ last_call.ret # None) =>
        /\ last_call.ret = last_call.path
        /\ IsBody(noaa_cache[last_call.path])
        /\ last_call.again =>
              ~last_call.requested /\ last_call.after = last_call.before

\* C26: a cache hit never exposes an incomplete file: when download_year
\* returns a path because the file already exists (no request is made), the
\* file holds the complete body of a finished download, also when an earlier
\* write of that path failed part-way.
C26_CacheHitComplete ==
    (last_call.called /\ last_call.ret # None /\ ~last_call.requested) =>
        /\ IsBody(last_call.before)
        /\ IsBody(noaa_cache[last_call.path])

\* the paths a loop over `years` of station st should hand back: one per
\* year whose request met no error, in the order of the years
RECURSIVE ExpectedFiles(_, _, _)
ExpectedFiles(st, k, errors) ==
    IF k > Len(AcqYears) THEN <<>>
    ELSE (IF <<st, AcqYears[k]>> \in errors THEN <<>> ELSE <<<<st, AcqYears[k]>>>>)
         \o ExpectedFiles(st, k + 1, errors)
RECURSIVE ExpectedDownloaded(_, _, _, _)
ExpectedDownloaded(st, ids, year, errors) ==
    IF st > ids THEN <<>>
    ELSE (IF st \in errors THEN <<>> ELSE <<<<st, year>>>>)
         \o ExpectedDownloaded(st + 1, ids, year, errors)

\* C13: download_year raises nothing: an HTTP error status, a timeout, a
\* connection failure and a failed write of the cache file all give None;
\* the loops of _download_city_data and download_city_year run to their end
\* and leave out exactly the station-years that failed.
C13_NeverRaises ==
    /\ acq.phase # "raised"
    /\ last_call.called => (~last_call.raised /\ (last_call.exc # "none" => last_call.ret = None))
    /\ acq.phase \in {"s3", "done"} =>
          \A st \in 1..acq.station_ids :
              LET want == ExpectedFiles(st, 1, acq.errors)
              IN  IF want = <<>> THEN st \notin DOMAIN acq.results
                  ELSE st \in DOMAIN acq.results /\ acq.results[st] = want
    /\ acq.phase = "city_year" =>
          acq.downloaded = ExpectedDownloaded(1, acq.station_ids, acq.year, acq.errors)

\* a run in which a timeout and a failed write were met and a later
\* station-year of the same run was still downloaded
C13_Witness ==
    /\ acq.phase \in {"s3", "done"}
    /\ <<1, AcqYears[1]>> \in acq.errors
    /\ \E st \in DOMAIN acq.results : acq.results[st] # <<>> /\ st >= 2
    /\ 1 \in DOMAIN acq.results /\ acq.results[1] = <<<<1, AcqYears[2]>>>>
    /\ last_call.called /\ last_call.exc \in {"timeout", "write_failed"}

-----------------------------------------------------------------------------
(* OpenAQClient.get_sensor_measurements: the paged measurement query.  A   *)
(* response is the number of results on the page, at most the page size    *)
(* that was asked for; ApiError stands for a call that raises.             *)

MaxPages == 3
ApiMaxLimit == 1000
ApiError == 0 - 1
LimitArgs == {1, 2, ApiMaxLimit, ApiMaxLimit + 1, 2 * ApiMaxLimit}
PageSizes(lim) == {0, 1, lim - 1, lim} \cap (0..lim)

\* openaq/client.py:190  a page shorter than the limit is the last one
short_page_ignored(n, lim) == FALSE
short_page(n, lim) == n < lim

PagesInit ==
    /\ pg = [pc |-> "idle"]
    /\ PageRestIdle

\* openaq/client.py:144-172  entry: page = 1, the limit capped at the API's
\* maximum, the query parameters
GetSensorMeasurements(limit_arg, max_pages) ==
    /\ pg.pc = "idle"
    /\ pg' = [pc |-> "loop", limit_arg |-> limit_arg, max_pages |-> max_pages,
              page |-> 1,
              limit |-> IF limit_arg < ApiMaxLimit THEN limit_arg ELSE ApiMaxLimit,
              requests |-> <<>>, responses |-> <<>>, all_results |-> 0, rows |-> 0]
    /\ UNCHANGED pageRest

\* openaq/client.py:176-195  one turn of the while loop: the request for
\* pg.page with page size pg.limit and what follows from its n results
\* (216-221: an exception ends the call with an empty frame)
RequestPage(n) ==
    /\ pg.pc = "loop" /\ pg.page <= pg.max_pages
    /\ LET sent == [pg EXCEPT !.requests = Append(@, [page |-> pg.page, limit |-> pg.limit]),
                              !.responses = Append(@, n)]
       IN  pg' = IF n = ApiError THEN [sent EXCEPT !.pc = "returned", !.rows = 0]
                 ELSE IF n = 0 THEN [sent EXCEPT !.pc = "after_loop"]
                 ELSE IF short_page(n, pg.limit)
                      THEN [sent EXCEPT !.pc = "after_loop", !.all_results = @ + n]
                      ELSE [sent EXCEPT !.page = @ + 1, !.all_results = @ + n]
    /\ UNCHANGED pageRest

\* openaq/client.py:176, 197-214  the loop is left (break, or page beyond
\* max_pages) and the frame of all_results is returned
ReturnFrame ==
    /\ pg.pc = "after_loop" \/ (pg.pc = "loop" /\ pg.page > pg.max_pages)
    /\ pg' = [pg EXCEPT !.pc = "returned", !.rows = pg.all_results]
    /\ UNCHANGED pageRest

PagesNext ==
    \/ \E limit_arg \in LimitArgs, max_pages \in 0..MaxPages :
          GetSensorMeasurements(limit_arg, max_pages)
    \/ pg.pc = "loop" /\ \E n \in PageSizes(pg.limit) \cup {ApiError} : RequestPage(n)
    \/ ReturnFrame
SpecPages == PagesInit /\ [][PagesNext]_vars /\ WF_vars(PagesNext)

PagesStarted == pg.pc \in {"loop", "after_loop", "returned"}

\* the safety part of C14
PagingBounded ==
    PagesStarted =>
        /\ Len(pg.requests) <= pg.max_pages
        /\ \A k \in 1..Len(pg.requests) :
              pg.requests[k].page = k /\ pg.requests[k].limit <= ApiMaxLimit
        /\ \A k \in 1..Len(pg.responses) :
              k < Len(pg.responses) => pg.responses[k] = pg.requests[k].limit

\* C14: get_sensor_measurements ends; it sends at most max_pages page
\* requests, each with a page size of at most 1000; page k+1 is requested only
\* after page k came back with exactly page-size results, so the first empty
\* or short page is the last one requested.
C14_PagingTerminates == []PagingBounded /\ <>(pg.pc = "returned")

\* a call that stopped at a short second page before max_pages was reached
C14_Witness ==
    /\ pg.pc = "returned" /\ pg.limit_arg > ApiMaxLimit
    /\ Len(pg.requests) = 2 /\ pg.max_pages > 2
    /\ pg.responses[1] = ApiMaxLimit /\ pg.responses[2] = ApiMaxLimit - 1
    /\ pg.rows = 2 * ApiMaxLimit - 1

\* ===========================================================================
\* City batches: NOAACityPipeline.process_city / process_noaa_cities and
\* OpenAQCityPipeline.process_city / process_openaq_cities.
\*
\* A city is described by what its stations deliver.  A NOAA station either
\* has no yearly file, has a file pd.read_csv cannot parse, has a file
\* NOAADataProcessor.process cannot handle, cleans to an empty frame, or
\* cleans to a table; a table is abstracted to the non-null fraction of each
\* core column it carries.  An OpenAQ station is described in the same way for
\* the S3 archive path and for the REST path.
\* ===========================================================================
MaxCities == 2
BatchKinds == {"noaa", "openaq_s3", "openaq_api"}
MinCoverages == {<<3, 10>>, <<1, 2>>}
CoreColumns == {"temp_avg_c", "precip_mm"}
Table(density) == [kind |-> "table", density |-> density]
NoTable(kind) == [kind |-> kind, density |-> <<>>]
NOAATables ==
    { Table(<<>>),
      Table(("temp_avg_c" :> <<1, 2>>) @@ ("precip_mm" :> Rat(0))),
      Table(("temp_avg_c" :> Rat(1)) @@ ("precip_mm" :> Rat(0))),
      Table(("temp_avg_c" :> Rat(1)) @@ ("precip_mm" :> <<1, 2>>)) }
NOAAStations ==
    {NoTable(k) : k \in {"no_file", "unreadable", "malformed", "empty"}} \cup NOAATables
S3Stations == {NoTable(k) : k \in {"no_file", "unreadable", "no_rows", "no_date", "ok"}}
ApiStations == {NoTable(k) : k \in {"no_sensor", "no_data", "data"}}
StationsOf(kind) ==
    CASE kind = "noaa" -> NOAAStations
      [] kind = "openaq_s3" -> S3Stations
      [] OTHER -> ApiStations
Hazards == {"none", "no_date_column", "save_fails"}
CityScenarios(kind) ==
    {[known |-> FALSE, stations |-> <<>>, hazard |-> "none"]} \cup
    [known : {TRUE},
     stations : {<<>>} \cup {<<a>> : a \in StationsOf(kind)}
                \cup {<<a, b>> : a \in StationsOf(kind), b \in StationsOf(kind)},
     hazard : IF kind = "noaa" THEN Hazards ELSE Hazards \ {"no_date_column"}]

RECURSIVE RSum(_, _)
RSum(f, cols) ==
    IF cols = {} THEN Rat(0)
    ELSE LET c == CHOOSE x \in cols : TRUE IN RAdd(f[c], RSum(f, cols \ {c}))

\* df[available_cols].notna().mean().mean(): the mean over the available core
\* columns of each column's non-null fraction.
coverage(t) ==
    LET available_cols == CoreColumns \cap DOMAIN t.density
    IN RDiv(RSum(t.density, available_cols), Rat(Cardinality(available_cols)))

filter_low_coverage_stations(station_dfs, tables, min_coverage) ==
    {s \in station_dfs :
        /\ CoreColumns \cap DOMAIN tables[s].density # {}
        /\ RLeq(min_coverage, coverage(tables[s]))}

CityResult(ret, raised, step, contributors, files, report) ==
    [ret |-> ret, raised |-> raised, step |-> step,
     contributors |-> contributors, files |-> files, report |-> report]

\* NOAACityPipeline.process_city.
noaa_process_city(sc, min_coverage) ==
    LET ids == 1..Len(sc.stations)
        downloaded == {s \in ids : sc.stations[s].kind # "no_file"}
        station_dfs == {s \in downloaded : sc.stations[s].kind = "table"}
        filtered == IF Cardinality(station_dfs) > 1
                    THEN filter_low_coverage_stations(station_dfs, sc.stations, min_coverage)
                    ELSE station_dfs
        tables == {sc.stations[s] : s \in filtered}
    IN  IF ids = {} THEN CityResult("None", FALSE, "match", {}, FALSE, FALSE)
        ELSE IF downloaded = {} THEN CityResult("None", FALSE, "download", {}, FALSE, FALSE)
        ELSE IF \E s \in downloaded : sc.stations[s].kind \in {"unreadable", "malformed"}
             THEN CityResult("None", TRUE, "clean", {}, FALSE, FALSE)
        ELSE IF station_dfs = {} THEN CityResult("None", FALSE, "clean", {}, FALSE, FALSE)
        ELSE IF filtered = {} THEN CityResult("None", FALSE, "filter", {}, FALSE, FALSE)
        ELSE IF sc.hazard = "no_date_column" THEN CityResult("None", TRUE, "fuse", tables, FALSE, FALSE)
        ELSE IF sc.hazard = "save_fails" THEN CityResult("None", TRUE, "save", tables, FALSE, FALSE)
        ELSE CityResult("paths", FALSE, "save", tables, TRUE, TRUE)

\* OpenAQCityPipeline.process_city with _download_from_s3 or _download_from_api,
\* _merge_pollutants and OpenAQDataSaver.save, for the single pollutant of the
\* default configuration.
openaq_process_city(sc, use_s3) ==
    LET ids == 1..Len(sc.stations)
        station_dfs == {s \in ids : sc.stations[s].kind \in {"ok", "no_date", "data"}}
        has_date == \E s \in station_dfs : sc.stations[s].kind = "ok"
        tables == {sc.stations[s] : s \in station_dfs}
    IN  IF ids = {} THEN CityResult("None", FALSE, "match", {}, FALSE, FALSE)
        ELSE IF station_dfs = {} THEN CityResult("empty", FALSE, "download", {}, FALSE, FALSE)
        ELSE IF ~use_s3 \/ ~has_date THEN CityResult("None", TRUE, "fuse", tables, FALSE, FALSE)
        ELSE IF sc.hazard = "save_fails" THEN CityResult("None", TRUE, "save", tables, FALSE, FALSE)
        ELSE CityResult("paths", FALSE, "save", tables, TRUE, FALSE)

process_city(kind, sc, min_coverage) ==
    IF kind = "noaa" THEN noaa_process_city(sc, min_coverage)
    ELSE openaq_process_city(sc, kind = "openaq_s3")

\* `if saved_paths:` in the batch loops.
truthy_always(saved_paths) == TRUE
truthy(saved_paths) == saved_paths = "paths"

\* Which of the skip cases a city is: it matches no station, none of its
\* stations yields any data, or (NOAA) the coverage filter runs, which it does
\* for two stations or more, and keeps none.
SkipCase(kind, sc, min_coverage) ==
    LET ids == 1..Len(sc.stations)
        tabled == {s \in ids : sc.stations[s].kind = "table"}
    IN  IF ~sc.known THEN "unknown_city"
        ELSE IF ids = {} THEN "no_stations"
        ELSE IF \A s \in ids : sc.stations[s].kind \in {"no_file", "no_sensor", "no_data"}
             THEN "no_downloads"
        ELSE IF /\ kind = "noaa"
                /\ tabled = ids
                /\ Cardinality(ids) > 1
                /\ \A s \in ids :
                      \/ CoreColumns \cap DOMAIN sc.stations[s].density = {}
                      \/ RLess(coverage(sc.stations[s]), min_coverage)
             THEN "below_coverage"
        ELSE "other"

BatchInit ==
    /\ \E kind \in BatchKinds, n \in 1..MaxCities, mc \in MinCoverages :
          batch = [pc |-> "loop", kind |-> kind, n |-> n, min_coverage |-> mc,
                   i |-> 1, outcomes |-> <<>>, cases |-> <<>>, results |-> {},
                   data_files |-> {}, reports |-> {}, contributors |-> {}]
    /\ BatchRestIdle

\* One iteration of the loop of process_noaa_cities / process_openaq_cities.
ProcessCity(sc) ==
    /\ batch.pc = "loop"
    /\ batch.i <= batch.n
    /\ LET r == IF sc.known THEN process_city(batch.kind, sc, batch.min_coverage)
                ELSE CityResult("continue", FALSE, "lookup", {}, FALSE, FALSE)
           case == SkipCase(batch.kind, sc, batch.min_coverage)
       IN batch' = [batch EXCEPT
              !.pc = IF r.raised THEN "raised" ELSE "loop",
              !.i = IF r.raised THEN @ ELSE @ + 1,
              !.outcomes = Append(@, IF r.raised THEN "raised" ELSE r.ret),
              !.cases = Append(@, case),
              !.results = IF ~r.raised /\ sc.known /\ truthy(r.ret) THEN @ \cup {batch.i} ELSE @,
              !.data_files = IF r.files THEN @ \cup {batch.i} ELSE @,
              !.reports = IF r.report THEN @ \cup {batch.i} ELSE @,
              !.contributors = r.contributors]
    /\ UNCHANGED batchRest

BatchReturn ==
    /\ batch.pc = "loop"
    /\ batch.i > batch.n
    /\ batch' = [batch EXCEPT !.pc = "returned"]
    /\ UNCHANGED batchRest

BatchNext ==
    \/ batch.pc = "loop" /\ \E sc \in CityScenarios(batch.kind) : ProcessCity(sc)
    \/ BatchReturn

SpecBatch == BatchInit /\ [][BatchNext]_vars

SkipCases == {"no_stations", "no_downloads", "below_coverage"}

C16_NoFailurePropagates ==
    /\ batch.pc # "raised"
    /\ batch.pc = "returned" =>
          /\ Len(batch.outcomes) = batch.n
          /\ batch.results = {k \in 1..batch.n : batch.outcomes[k] = "paths"}

\* C19: every station that contributes to a dataset persisted by the NOAA
\* process_city carries a core field and has a mean non-null density over the
\* core fields of at least min_coverage, for one station as for several.
C19_ContributorsCovered ==
    (/\ batch.pc \in {"loop", "returned"}
     /\ batch.kind = "noaa"
     /\ batch.outcomes # <<>>
     /\ batch.outcomes[Len(batch.outcomes)] = "paths") =>
        \A t \in batch.contributors :
            /\ CoreColumns \cap DOMAIN t.density # {}
            /\ RLeq(batch.min_coverage, coverage(t))

\* ===========================================================================
\* NOAADataProcessor.process: sentinel replacement, unit conversion, column
\* selection and outlier detection on one raw GSOD table.
\*
\* A raw table is [cols, rows]; a row maps each raw column to a value.  The
\* identification columns (STATION, DATE, LATITUDE, ...) pass through process
\* unchanged and are left out.
\* ===========================================================================
\* config/settings.py:49-62
NOAA_MISSING_VALUES ==
    [TEMP |-> <<99999, 10>>, DEWP |-> <<99999, 10>>, SLP |-> <<99999, 10>>,
     STP |-> <<9999, 10>>, VISIB |-> <<9999, 10>>, WDSP |-> <<9999, 10>>,
     MXSPD |-> <<9999, 10>>, GUST |-> <<9999, 10>>, MAX |-> <<99999, 10>>,
     MIN |-> <<99999, 10>>, PRCP |-> <<9999, 100>>, SNDP |-> <<9999, 10>>]

\* raw readings: the sentinel, a blank cell, plausible values, and for the
\* range-checked fields a value the outlier detector rejects
GsodValues(c) ==
    {NOAA_MISSING_VALUES[c]} \cup
    CASE c = "TEMP" -> {NaN, Rat(50)}
      [] c = "MAX" -> {Rat(59)}
      [] c = "MIN" -> {Rat(-112)}
      [] c = "DEWP" -> {Rat(41)}
      [] c = "PRCP" -> {NaN, Rat(0), Rat(1), Rat(100)}
      [] c = "WDSP" -> {Rat(10), Rat(200)}
      [] c = "VISIB" -> {Rat(5), Rat(70)}
      [] c = "SLP" -> {NaN, Rat(1010)}
      [] c = "STP" -> {NaN, Rat(1000)}
      [] OTHER -> {Rat(20)}

GsodColumnSets ==
    { {"TEMP", "MAX", "MIN", "DEWP"}, {"TEMP"}, {"PRCP"}, {"WDSP", "VISIB"},
      {"SLP", "STP"}, {"SLP"}, {"STP"}, {"MXSPD"} }

GsodRows(cols) ==
    {r \in [cols -> UNION {GsodValues(c) : c \in cols}] : \A c \in cols : r[c] \in GsodValues(c)}

GsodTables ==
    UNION {{[cols |-> cols, rows |-> rs] : rs \in [1..n -> GsodRows(cols)]}
           : <<cols, n>> \in GsodColumnSets \X (0..MaxRows)}

\* result[col] = result[col].replace(missing_val, np.nan) for each configured column
replace_missing_skipped(row, cols) == row
replace_missing(row, cols) ==
    [c \in cols |->
        IF c \in DOMAIN NOAA_MISSING_VALUES /\ row[c] = NOAA_MISSING_VALUES[c]
        THEN NaN ELSE row[c]]

FtoC(v) == RDiv(RMul(RAdd(v, Rat(-32)), Rat(5)), Rat(9))

\* the columns _convert_units adds, and the column each is computed from
ConvertedFrom ==
    [TEMP_C |-> "TEMP", MAX_C |-> "MAX", MIN_C |-> "MIN", DEWP_C |-> "DEWP",
     PRCP_MM |-> "PRCP", WDSP_KMH |-> "WDSP", VISIB_KM |-> "VISIB"]

\* _convert_units reads MAX, MIN and DEWP whenever TEMP is present
convert_raises(cols) == "TEMP" \in cols /\ ~({"MAX", "MIN", "DEWP"} \subseteq cols)

ConvertedCols(cols) ==
    {c \in DOMAIN ConvertedFrom :
        IF ConvertedFrom[c] \in {"TEMP", "MAX", "MIN", "DEWP"}
        THEN "TEMP" \in cols ELSE ConvertedFrom[c] \in cols}
    \cup (IF cols \cap {"SLP", "STP"} # {} THEN {"STP_HPA"} ELSE {})

_convert_units(row, cols) ==
    [c \in cols \cup ConvertedCols(cols) |->
        CASE c \in cols -> row[c]
          [] c \in {"TEMP_C", "MAX_C", "MIN_C", "DEWP_C"} -> FtoC(row[ConvertedFrom[c]])
          [] c = "PRCP_MM" -> RMul(row["PRCP"], <<254, 10>>)
          [] c = "WDSP_KMH" -> RMul(row["WDSP"], <<1852, 1000>>)
          [] c = "VISIB_KM" -> RMul(row["VISIB"], <<160934, 100000>>)
          [] OTHER -> IF {"SLP", "STP"} \subseteq cols
                      THEN (IF IsNull(row["SLP"]) THEN row["STP"] ELSE row["SLP"])
                      ELSE IF "SLP" \in cols THEN row["SLP"] ELSE row["STP"]]

\* _select_columns: the kept columns and their new names
SelectedColumns ==
    [TEMP_C |-> "temp_avg_c", MAX_C |-> "temp_max_c", MIN_C |-> "temp_min_c",
     DEWP_C |-> "dewpoint_c", PRCP_MM |-> "precip_mm", WDSP_KMH |-> "wind_speed_kmh",
     VISIB_KM |-> "visibility_km", STP_HPA |-> "station_pressure_hpa"]

_select_columns(row) ==
    LET kept == DOMAIN row \cap DOMAIN SelectedColumns
    IN  [n \in {SelectedColumns[c] : c \in kept} |->
            row[CHOOSE c \in kept : SelectedColumns[c] = n]]

\* NOAADataProcessor.process
process(t) ==
    IF t.rows = <<>> THEN [raised |-> FALSE, cols |-> t.cols, rows |-> t.rows, flags |-> <<>>]
    ELSE IF convert_raises(t.cols) THEN [raised |-> TRUE, cols |-> {}, rows |-> <<>>, flags |-> <<>>]
    ELSE LET selected == [i \in 1..Len(t.rows) |->
                             _select_columns(_convert_units(replace_missing(t.rows[i], t.cols), t.cols))]
             d == NOAA_detect_outliers([cols |-> DOMAIN selected[1], rows |-> selected])
         IN  [raised |-> FALSE, cols |-> DOMAIN selected[1], rows |-> d.rows, flags |-> d.flags]

CleanInit ==
    /\ \E t \in GsodTables : gsod = [pc |-> "raw", raw |-> t]
    /\ CleanRestIdle

Process ==
    /\ gsod.pc = "raw"
    /\ gsod' = [pc |-> "processed", raw |-> gsod.raw, out |-> process(gsod.raw)]
    /\ UNCHANGED cleanRest

CleanNext == Process
SpecClean == CleanInit /\ [][CleanNext]_vars

\* the normalized field of each raw field that has one
NormalizedField ==
    [TEMP |-> "temp_avg_c", MAX |-> "temp_max_c", MIN |-> "temp_min_c",
     DEWP |-> "dewpoint_c", PRCP |-> "precip_mm", WDSP |-> "wind_speed_kmh",
     VISIB |-> "visibility_km", SLP |-> "station_pressure_hpa",
     STP |-> "station_pressure_hpa"]

Cleaned == gsod.pc = "processed" /\ ~gsod.out.raised /\ gsod.raw.rows # <<>>
SentinelAt(i, c) == gsod.raw.rows[i][c] = NOAA_MISSING_VALUES[c]
NullUnflagged(i, f) ==
    /\ IsNull(gsod.out.rows[i][f])
    /\ f \in DOMAIN gsod.out.flags => ~gsod.out.flags[f][i]

\* C17 as stated: a raw value equal to its field's sentinel leaves the
\* corresponding normalized field null and not flagged as an outlier.
C17_Original ==
    Cleaned =>
        \A i \in 1..Len(gsod.raw.rows) :
            \A c \in gsod.raw.cols \cap DOMAIN NormalizedField :
                SentinelAt(i, c) => NullUnflagged(i, NormalizedField[c])

\* C17 amended: the same for every field but the pressure pair; the pressure
\* field is null and unflagged when every pressure column of the row holds its
\* sentinel or nothing, and otherwise it is never a sentinel: it is null or the
\* value of a pressure column that does not hold its sentinel.
C17_SentinelsNulled ==
    Cleaned =>
        \A i \in 1..Len(gsod.raw.rows) :
            /\ \A c \in (gsod.raw.cols \cap DOMAIN NormalizedField) \ {"SLP", "STP"} :
                  SentinelAt(i, c) => NullUnflagged(i, NormalizedField[c])
            /\ LET p == gsod.raw.cols \cap {"SLP", "STP"}
               IN  p # {} =>
                     /\ (\A c \in p : SentinelAt(i, c) \/ IsNull(gsod.raw.rows[i][c]))
                           => NullUnflagged(i, "station_pressure_hpa")
                     /\ \/ IsNull(gsod.out.rows[i]["station_pressure_hpa"])
                        \/ \E c \in p : /\ ~SentinelAt(i, c)
                                        /\ gsod.out.rows[i]["station_pressure_hpa"] = gsod.raw.rows[i][c]

C17_Witness ==
    /\ Cleaned
    /\ gsod.raw.cols = {"TEMP", "MAX", "MIN", "DEWP"}
    /\ Len(gsod.raw.rows) = 2
    /\ SentinelAt(1, "TEMP") /\ IsNull(gsod.out.rows[1]["temp_avg_c"])
    /\ gsod.out.rows[2]["temp_avg_c"] = Rat(10)
    /\ gsod.out.flags["temp_min_c"][2]

\* ===========================================================================
\* OpenAQCityPipeline.process_city for one pollutant: _download_from_s3 or
\* _download_from_api, _merge_pollutants and OpenAQDataSaver.save.
\*
\* A station delivers readings [date, value] in one reported unit, in time
\* order, possibly several on one calendar date (the archive is hourly).
\* "ug/m3" stands for the code's microgram unit string.
\* ===========================================================================
MaxReadings == 2

\* openaq_processor.py:28-35
TARGET_UNITS ==
    [pm25 |-> "ug/m3", pm10 |-> "ug/m3", o3 |-> "ppm", no2 |-> "ppm",
     so2 |-> "ppm", co |-> "ppm"]

\* OpenAQDataProcessor._convert_unit
_convert_unit(value, from_unit, to_unit) ==
    IF from_unit = to_unit THEN value
    ELSE IF to_unit = "ug/m3" /\ from_unit = "mg/m3" THEN RMul(value, Rat(1000))
    ELSE IF to_unit = "ug/m3" /\ from_unit = "g/m3" THEN RMul(value, Rat(1000000))
    ELSE IF to_unit = "ppm" /\ from_unit = "ppb" THEN RDiv(value, Rat(1000))
    ELSE IF to_unit = "ppm" /\ from_unit = "ppt" THEN RDiv(value, Rat(1000000))
    ELSE value

AirPollutants == {"pm25", "o3"}
ReportedUnits(pollutant) ==
    IF TARGET_UNITS[pollutant] = "ug/m3" THEN {"ug/m3", "mg/m3"} ELSE {"ppm", "ppb"}
AirValues == {Rat(2), Rat(600)}
AirStationCounts == {1, 2}
Readings ==
    UNION {{rs \in [1..n -> [date : Dates, value : AirValues]] :
               \A i \in 1..(n - 1) : rs[i].date <= rs[i + 1].date}
           : n \in 1..MaxReadings}
StationFiles(pollutant) == [units : ReportedUnits(pollutant), rows : Readings]
AirCities(pollutant) == UNION {[1..n -> StationFiles(pollutant)] : n \in AirStationCounts}

\* result.sort_values("date") (openaq_pipeline.py:156, openaq_saver.py:117):
\* ascending by date, rows of one date in the order they had
sort_by_date(rows) ==
    LET ds == SetToSortedSeq({rows[i].date : i \in 1..Len(rows)})
    IN  FlattenSeq([k \in 1..Len(ds) |-> SelectSeq(rows, LAMBDA r : r.date = ds[k])])

\* s3_downloader.py:147-153 and openaq_pipeline.py:261-277: a station's rows
\* as read when its files arrive out of key order.  The rows are those of two
\* files, split after position arrival[s], and the later file completes first
\* (arrival[s] = 0: key order).
Arrivals(files) == {a \in [DOMAIN files -> 0..MaxReadings] : \A s \in DOMAIN files : a[s] < Len(files[s].rows)}
as_completed(files, arrival) ==
    [s \in DOMAIN files |->
        [units |-> files[s].units,
         rows |-> SubSeq(files[s].rows, arrival[s] + 1, Len(files[s].rows))
                  \o SubSeq(files[s].rows, 1, arrival[s])]]

\* openaq_pipeline.py:276-290: the station frame handed to detect_outliers.
\* The pollutant column is a copy of the raw value column.
s3_station_frame(file, pollutant) ==
    [cols |-> {pollutant},
     rows |-> [i \in 1..Len(file.rows) |-> [c \in {pollutant} |-> file.rows[i].value]]]

\* the rows of one station as merge_multi_station_data concatenates them
AirTagged(file, checked, sid) ==
    [i \in 1..Len(file.rows) |->
        [date |-> file.rows[i].date, _station_id |-> sid,
         _weight |-> OpenAQWeight(<<>>, sid), lat |-> Absent, vals |-> checked[i]]]

\* _download_from_s3 for one pollutant, then _merge_pollutants and save
download_from_s3(files, pollutant) ==
    LET ids == DOMAIN files
        frame == [s \in ids |-> s3_station_frame(files[s], pollutant)]
        checked == [s \in ids |-> OpenAQ_detect_outliers(frame[s], pollutant).rows]
        tagged == [s \in ids |-> AirTagged(files[s], checked[s], s)]
        combined == FlattenSeq([s \in 1..Len(files) |-> tagged[s]])
        ds == SetToSortedSeq({combined[i].date : i \in 1..Len(combined)})
        merged == IF Len(files) > 1
                  THEN [i \in 1..Len(ds) |->
                           LET r == OpenAQFusedRow(combined, {pollutant}, ds[i])
                           IN  [date |-> r.date, vals |-> r.vals, data_source |-> r.data_source]]
                  ELSE [i \in 1..Len(tagged[1]) |->
                           [date |-> tagged[1][i].date, vals |-> tagged[1][i].vals,
                            data_source |-> "single_station"]]
    IN  [reaching |-> [s \in ids |-> [i \in 1..Len(frame[s].rows) |-> frame[s].rows[i][pollutant]]],
         raised |-> FALSE, saved |-> sort_by_date(merged)]

\* _download_from_api for one pollutant: the frames of get_measurements carry
\* the reading in `value` and have neither a pollutant column nor a date
\* column, so detect_outliers returns them unchanged and the merge, or
\* _merge_pollutants for a single station, raises KeyError.
download_from_api(files, pollutant) ==
    [reaching |-> [s \in DOMAIN files |-> [i \in 1..Len(files[s].rows) |-> files[s].rows[i].value]],
     raised |-> TRUE, saved |-> <<>>]

AirInit ==
    /\ \E use_s3 \in BOOLEAN, pollutant \in AirPollutants :
          \E files \in AirCities(pollutant) :
              air = [pc |-> "matched", use_s3 |-> use_s3, pollutant |-> pollutant, files |-> files]
    /\ AirRestIdle

AirOutcome(read, r) ==
    [pc |-> "done", use_s3 |-> air.use_s3, pollutant |-> air.pollutant, files |-> air.files,
     read |-> read, reaching |-> r.reaching, raised |-> r.raised, saved |-> r.saved]

ProcessCityS3 ==
    /\ air.pc = "matched" /\ air.use_s3
    /\ \E arrival \in Arrivals(air.files) :
          LET read == as_completed(air.files, arrival)
          IN  air' = AirOutcome(read, download_from_s3(read, air.pollutant))
    /\ UNCHANGED airRest

ProcessCityApi ==
    /\ air.pc = "matched" /\ ~air.use_s3
    /\ air' = AirOutcome(air.files, download_from_api(air.files, air.pollutant))
    /\ UNCHANGED airRest

AirNext == ProcessCityS3 \/ ProcessCityApi
SpecAir == AirInit /\ [][AirNext]_vars

\* C18: every concentration handed to outlier detection and fusion is the raw
\* reading converted to the pollutant's target unit.
C18_TargetUnits ==
    air.pc = "done" =>
        \A s \in DOMAIN air.read :
            \A i \in 1..Len(air.read[s].rows) :
                air.reaching[s][i] =
                    _convert_unit(air.read[s].rows[i].value, air.read[s].units,
                                  TARGET_UNITS[air.pollutant])

\* C20: a persisted dataset holds at most one record per calendar date.
C20_OneRecordPerDate ==
    air.pc = "done" =>
        \A i, j \in 1..Len(air.saved) :
            i # j => air.saved[i].date # air.saved[j].date

\* ===========================================================================
\* NOAACityPipeline.process_city from the converted station tables to the
\* saved file: _detect_outliers per station, the coverage filter, the fusion
\* or the single-station branch, the interpolation and NOAADataSaver.save.
\*
\* Each station has a row on every date of the period; one range-checked
\* field is carried; the stations of a city stand at different distances.
\* A column of the file is <<field, suffix>>.
\* ===========================================================================
CityDates == {1, 2, 3}
CityColumns == {"temp_avg_c"}
CityValues == {NaN, Rat(-61), Rat(-60), Rat(60)}
CityDistances == {200, 500}
CityStationCounts == {1, 2}
DefaultMinCoverage == <<3, 10>>
CityInputs ==
    UNION {[tables : [1..n -> [CityDates -> [CityColumns -> CityValues]]],
            stations : {f \in [1..n -> CityDistances] : \A a, b \in 1..n : a # b => f[a] # f[b]},
            interpolation_limit : 1..MaxLimit]
           : n \in CityStationCounts}

\* noaa_pipeline.py:101  the station's table after _detect_outliers, and the
\* {col}_is_outlier columns it received
CleanStation(tbl) ==
    LET ds == SetToSortedSeq(DOMAIN tbl)
        d == NOAA_detect_outliers([cols |-> CityColumns, rows |-> [i \in 1..Len(ds) |-> tbl[ds[i]]]])
    IN  [table |-> [x \in DOMAIN tbl |-> d.rows[CHOOSE i \in 1..Len(ds) : ds[i] = x]],
         flag_cols |-> DOMAIN d.flags,
         density |-> [c \in CityColumns |->
                        Norm(Card({x \in DOMAIN tbl :
                                     NotNull(d.rows[CHOOSE i \in 1..Len(ds) : ds[i] = x][c])}),
                             Card(DOMAIN tbl))]]

\* noaa_pipeline.py:110-156
noaa_city_dataset(in) ==
    LET ids == DOMAIN in.tables
        clean == [s \in ids |-> CleanStation(in.tables[s])]
        station_dfs == IF Card(ids) > 1
                       THEN filter_low_coverage_stations(ids, clean, DefaultMinCoverage)
                       ELSE ids
        dfs == [s \in station_dfs |-> clean[s].table]
        single == Card(station_dfs) = 1
        final_df == IF ~single
                    THEN NOAA_merge_multi_station_data(dfs, in.stations, CityColumns, TRUE)
                    ELSE NOAASingleStation(dfs, CityColumns)
        filled == [c \in CityColumns |->
                     interpolate_missing_values(
                         [d \in {final_df[i].date : i \in 1..Len(final_df)} |->
                             (CHOOSE r \in SeqToSet(final_df) : r.date = d).vals[c]],
                         in.interpolation_limit)]
        sole == CHOOSE s \in station_dfs : TRUE
    IN  IF station_dfs = {} THEN [saved |-> FALSE, columns |-> {}, rows |-> <<>>, stations |-> {}]
        ELSE [saved |-> TRUE,
              stations |-> station_dfs,
              columns |->
                  {<<"date", "">>, <<"station_count", "">>, <<"data_source", "">>,
                   <<"data_quality_score", "">>, <<"city_name", "">>}
                  \cup {<<c, "">> : c \in CityColumns}
                  \cup {<<c, "_source_count">> : c \in CityColumns}
                  \cup (IF single THEN {<<c, "_is_outlier">> : c \in clean[sole].flag_cols} ELSE {})
                  \cup {<<c, "_interpolated">> : c \in {x \in CityColumns : filled[x].has_flag_col}},
              rows |-> [i \in 1..Len(final_df) |->
                          [date |-> filled[CHOOSE c \in CityColumns : TRUE].date[i],
                           vals |-> [c \in CityColumns |-> filled[c].v[i]],
                           data_source |-> final_df[i].data_source]]]

CityInit ==
    /\ \E in \in CityInputs : city = [pc |-> "cleaning", in |-> in]
    /\ CityRestIdle

NOAAProcessCity ==
    /\ city.pc = "cleaning"
    /\ city' = [pc |-> "returned", in |-> city.in, file |-> noaa_city_dataset(city.in)]
    /\ UNCHANGED cityRest

CityNext == NOAAProcessCity
SpecCity == CityInit /\ [][CityNext]_vars

\* C21: a persisted NOAA file has, for every shared-schema field in it, the
\* columns {field}_source_count, {field}_is_outlier and {field}_is_interpolated,
\* and the columns station_count, data_source and data_quality_score.
C21_FileSchema ==
    (city.pc = "returned" /\ city.file.saved) =>
        /\ \A c \in CityColumns :
              <<c, "">> \in city.file.columns =>
                 {<<c, "_source_count">>, <<c, "_is_outlier">>, <<c, "_is_interpolated">>}
                     \subseteq city.file.columns
        /\ {<<"station_count", "">>, <<"data_source", "">>, <<"data_quality_score", "">>}
               \subseteq city.file.columns
        /\ \A i \in 1..Len(city.file.rows) :
              city.file.rows[i].data_source \in {"single_station", "weighted_average"}

\* C29: every non-null value of a range-checked field in a dataset persisted
\* by the NOAA pipeline lies within the field's range [min, max]: after the
\* outlier nulling neither the fusion nor the interpolation produces a value
\* out of range.
C29_PersistedInRange ==
    (city.pc = "returned" /\ city.file.saved) =>
        \A i \in 1..Len(city.file.rows) :
            \A c \in CityColumns \cap DOMAIN NOAA_OUTLIER_THRESHOLDS :
                NotNull(city.file.rows[i].vals[c]) =>
                    /\ RLeq(NOAA_OUTLIER_THRESHOLDS[c][1], city.file.rows[i].vals[c])
                    /\ RLeq(city.file.rows[i].vals[c], NOAA_OUTLIER_THRESHOLDS[c][2])

\* two stations are fused, a station reported a value out of range, and the
\* file holds an interpolated value and a value that no station reported
C29_Witness ==
    /\ city.pc = "returned" /\ city.file.saved
    /\ Cardinality(city.file.stations) = 2
    /\ \E s \in DOMAIN city.in.tables, d \in CityDates :
          is_outlier(city.in.tables[s][d]["temp_avg_c"], Rat(-60), Rat(60))
    /\ <<"temp_avg_c", "_interpolated">> \in city.file.columns
    /\ \E i \in 1..Len(city.file.rows) :
          /\ NotNull(city.file.rows[i].vals["temp_avg_c"])
          /\ city.file.rows[i].vals["temp_avg_c"] \notin CityValues

\* C22: once the processing of a city has ended, a persisted report records
\* its outcome, for a processed city and for a skipped one alike.
C22_EveryCityReported ==
    batch.pc \in {"loop", "returned"} =>
        \A k \in 1..Len(batch.outcomes) :
            batch.outcomes[k] # "continue" => k \in batch.reports

\* C23: in the fusions run by the pipelines the closer of two contributors has
\* the strictly larger weight: where two stations at different distances above
\* the clamp are the contributors of a field on a date and their values
\* differ, the fused value lies strictly nearer to the closer station's value.
C23_CloserStationDominates ==
    fuse_op \in {"noaa_pipeline", "openaq_pipeline"} =>
        \A i \in 1..Len(result) : \A c \in columns :
            \A s, t \in SurvivingStations :
                LET d == result[i].date
                    vs == station_dataframes[s][d][c]
                    vt == station_dataframes[t][d][c]
                    r == result[i].vals[c]
                IN  (/\ Contributors(d, c) = {s, t}
                     /\ 100 < stations_info[s] /\ stations_info[s] < stations_info[t]
                     /\ vs # vt)
                    => /\ NotNull(r)
                       /\ IF RLess(vs, vt)
                          THEN RLess(vs, r) /\ RLess(RAdd(r, r), RAdd(vs, vt))
                          ELSE RLess(r, vs) /\ RLess(RAdd(vs, vt), RAdd(r, r))

\* C24: for a fixed set of downloaded archive objects the persisted dataset is
\* the one obtained when the files arrive in key order, whatever order they
\* completed in, and its records are sorted ascending by date.
C24_ArrivalOrderIrrelevant ==
    (air.pc = "done" /\ air.use_s3) =>
        /\ air.saved = download_from_s3(air.files, air.pollutant).saved
        /\ \A i \in 1..(Len(air.saved) - 1) : air.saved[i].date <= air.saved[i + 1].date

\* ===========================================================================
\* DataMerger.merge_city_year: the NOAA and the OpenAQ file of one city-year,
\* each present or not, joined by merge_daily.  Both files carry the same
\* city_name, so the join key reduces to the date; one weather column and one
\* pollutant column are carried.
\* ===========================================================================
NoFile == [exists |-> FALSE, rows |-> <<>>]
NoaaYearFiles ==
    {NoFile} \cup
    {[exists |-> TRUE, rows |-> [i \in 1..Len(SetToSortedSeq(D)) |->
                                   [date |-> SetToSortedSeq(D)[i], temp_avg_c |-> Rat(10)]]]
       : D \in (SUBSET CityDates) \ {{}}}
OpenaqYearFiles ==
    {NoFile} \cup {[exists |-> TRUE, rows |-> [i \in 1..Len(rs) |-> [date |-> rs[i].date, pm25 |-> rs[i].value]]]
                     : rs \in Readings}

\* pd.merge(df_noaa_clean, df_openaq_clean, on=["date", "city_name"], how="left")
left_join(left, right) ==
    FlattenSeq([i \in 1..Len(left) |->
        LET m == SelectSeq(right, LAMBDA r : r.date = left[i].date)
        IN  IF m = <<>>
            THEN <<[date |-> left[i].date, temp_avg_c |-> left[i].temp_avg_c, pm25 |-> NaN]>>
            ELSE [k \in 1..Len(m) |->
                     [date |-> left[i].date, temp_avg_c |-> left[i].temp_avg_c, pm25 |-> m[k].pm25]]])

\* DataMerger.merge_daily.  Without an OpenAQ file df_openaq is pd.DataFrame():
\* the frame handed to pd.merge then has the pollutant columns only, and
\* pd.merge raises KeyError for the join keys missing on the right.
merge_daily(df_noaa, df_openaq) ==
    IF ~df_openaq.exists THEN [raised |-> TRUE, rows |-> <<>>]
    ELSE [raised |-> FALSE, rows |-> left_join(df_noaa.rows, df_openaq.rows)]

\* DataMerger.merge_city_year
merge_city_year(df_noaa, df_openaq) ==
    IF ~df_noaa.exists THEN [ret |-> "None", raised |-> FALSE, rows |-> <<>>]
    ELSE LET m == merge_daily(df_noaa, df_openaq)
         IN  [ret |-> IF m.raised THEN "None" ELSE "frame", raised |-> m.raised, rows |-> m.rows]

MergeInit ==
    /\ \E n \in NoaaYearFiles, o \in OpenaqYearFiles :
          merge = [pc |-> "files", noaa |-> n, openaq |-> o]
    /\ MergeRestIdle

MergeCityYear ==
    /\ merge.pc = "files"
    /\ merge' = [pc |-> "returned", noaa |-> merge.noaa, openaq |-> merge.openaq,
                   out |-> merge_city_year(merge.noaa, merge.openaq)]
    /\ UNCHANGED mergeRest

MergeNext == MergeCityYear
SpecMerge == MergeInit /\ [][MergeNext]_vars

\* C25: merge_city_year keeps every weather row; the pollutant is null where
\* no air-quality record matches; without an OpenAQ file the call returns all
\* weather rows with the pollutant null instead of failing.
C25_LeftJoinKeepsWeather ==
    (merge.pc = "returned" /\ merge.noaa.exists) =>
        /\ ~merge.out.raised
        /\ merge.out.ret = "frame"
        /\ \A i \in 1..Len(merge.noaa.rows) :
              \E k \in 1..Len(merge.out.rows) :
                  /\ merge.out.rows[k].date = merge.noaa.rows[i].date
                  /\ merge.out.rows[k].temp_avg_c = merge.noaa.rows[i].temp_avg_c
        /\ \A k \in 1..Len(merge.out.rows) :
              (\A j \in 1..Len(merge.openaq.rows) :
                   merge.openaq.rows[j].date # merge.out.rows[k].date)
                  => IsNull(merge.out.rows[k].pm25)
        /\ ~merge.openaq.exists =>
              merge.out.rows = [i \in 1..Len(merge.noaa.rows) |->
                                    [date |-> merge.noaa.rows[i].date,
                                     temp_avg_c |-> merge.noaa.rows[i].temp_avg_c,
                                     pm25 |-> NaN]]

\* ===========================================================================
\* The REST path of OpenAQCityPipeline for one station and one pollutant:
\* _download_from_api resolves the station's sensor for the pollutant and
\* hands its id to OpenAQClient.get_measurements, which looks up the sensors
\* of a location and queries the first that measures the pollutant.
\* Location ids and sensor ids are separate numberings of the same integers.
\* ===========================================================================
MaxSensors == 3
SensorIds == 1..MaxSensors
LocationIds == {1, 2}
PARAMETER_IDS == [pm25 |-> 2, pm10 |-> 1]
param_ids == (2 :> "pm25") @@ (1 :> "pm10")
ApiPollutants == DOMAIN PARAMETER_IDS
SensorCatalogs == [SensorIds -> [location : LocationIds, parameter_id : DOMAIN param_ids]]

\* the sensors the API lists for a location, by ascending sensor id
location_sensors(sensor_catalog, location_id) ==
    LET ids == SetToSortedSeq({x \in SensorIds : sensor_catalog[x].location = location_id})
    IN  [k \in 1..Len(ids) |-> [id |-> ids[k], parameter_id |-> sensor_catalog[ids[k]].parameter_id]]

\* openaq_pipeline.py:184-194  first sensor of the station whose parameter
\* is the pollutant; 0 stands for None
resolve_sensor(sensors, pollutant) ==
    LET m == SelectSeq(sensors, LAMBDA x : param_ids[x.parameter_id] = pollutant)
    IN  IF m = <<>> THEN 0 ELSE m[1].id

\* OpenAQClient.get_location_sensors: locations.get(location_id); an id that
\* names no location makes the request fail, which is caught and gives []
get_location_sensors(sensor_catalog, location_id, parameter) ==
    IF location_id \notin LocationIds THEN <<>>
    ELSE SelectSeq(location_sensors(sensor_catalog, location_id),
                   LAMBDA x : x.parameter_id = PARAMETER_IDS[parameter])

\* OpenAQClient.get_measurements(location_id, ...): the sensors_id of the
\* paged measurement query, 0 when no query is made
get_measurements(sensor_catalog, location_id, parameter) ==
    LET sensors == get_location_sensors(sensor_catalog, location_id, parameter)
    IN  IF sensors = <<>> THEN 0 ELSE sensors[1].id

ApiInit ==
    /\ \E sensor_catalog \in SensorCatalogs, loc \in LocationIds, pollutant \in ApiPollutants :
          api = [pc |-> "matched", catalog |-> sensor_catalog, pollutant |-> pollutant,
                 station |-> [id |-> loc, sensors |-> location_sensors(sensor_catalog, loc)]]
    /\ ApiRestIdle

\* openaq_pipeline.py:183-194  the sensor lookup of one turn of the loop over
\* stations; a station without a sensor for the pollutant is passed over
ResolveSensor ==
    /\ api.pc = "matched"
    /\ LET sensor_id == resolve_sensor(api.station.sensors, api.pollutant)
       IN  api' = [pc |-> IF sensor_id = 0 THEN "skipped" ELSE "resolved",
                   catalog |-> api.catalog, pollutant |-> api.pollutant,
                   station |-> api.station, sensor_id |-> sensor_id]
    /\ UNCHANGED apiRest

\* openaq_pipeline.py:196  self.client.get_measurements(sensor_id, ...)
GetMeasurements ==
    /\ api.pc = "resolved"
    /\ api' = [pc |-> "fetched", catalog |-> api.catalog, pollutant |-> api.pollutant,
                station |-> api.station, sensor_id |-> api.sensor_id,
                queried |-> get_measurements(api.catalog, api.sensor_id, api.pollutant)]
    /\ UNCHANGED apiRest

ApiNext == ResolveSensor \/ GetMeasurements
SpecApi == ApiInit /\ [][ApiNext]_vars

\* C27: on the REST path the measurements fetched for a station and a
\* pollutant come from the sensor resolved for the station: the paged query
\* uses that id as its sensor id, and the sensor belongs to the station and
\* measures the pollutant.
C27_QueriesResolvedSensor ==
    api.pc = "fetched" =>
        /\ api.queried = api.sensor_id
        /\ api.catalog[api.queried].location = api.station.id
        /\ param_ids[api.catalog[api.queried].parameter_id] = api.pollutant

\* ===========================================================================
\* Two find_nearest_stations calls with different targets running at the same
\* time on one NOAAStationMatcher.  Each call computes its distances into a
\* local list, assigns them to the distance_km column of the matcher's table
\* self.df (matcher.py:140) and then reads that column back to filter, sort
\* and build its result (143-158).  The two calls share self.df and no lock
\* is held, so the steps of one call may fall between the steps of the other.
\* ===========================================================================
Callers == {1, 2}
SharedTables ==
    {clean_station_data(cat, 20261104, 1) :
        cat \in UNION {[1..k -> {r \in CatalogRows : r.LON = "0" /\ r.END = "20250601"
                                                       /\ r.LAT \in {"0", "1", "2"}}]
                        : k \in 1..MaxCatalog}}

SharedInit ==
    /\ \E t \in SharedTables, lat \in [Callers -> TargetLats], n \in 1..MaxN :
          /\ lat[1] # lat[2]
          /\ shared = [pc |-> "running", df |-> t,
                        call |-> [c \in Callers |->
                                    [pc |-> "called", lat |-> lat[c], n |-> n, stations |-> <<>>]]]
    /\ SharedRestIdle

\* matcher.py:134-140  the distances of the call's own target are computed
\* and assigned to the shared column
WriteDistances(c) ==
    /\ shared.pc = "running" /\ shared.call[c].pc = "called"
    /\ shared' = [shared EXCEPT
                     !.df = with_distances(@, Rat(shared.call[c].lat), Rat(0)),
                     !.call[c].pc = "written"]
    /\ UNCHANGED sharedRest

\* matcher.py:143-158  the column is read back: filter, sort, head(n), dicts
ReadDistances(c) ==
    /\ shared.pc = "running" /\ shared.call[c].pc = "written"
    /\ \E sorted \in sort_values(valid_stations(shared.df, [given |-> FALSE, km |-> 0])) :
          shared' = [shared EXCEPT
                       !.call[c].pc = "returned",
                       !.call[c].stations =
                           [i \in 1..Len(head(sorted, shared.call[c].n)) |->
                               station_dict(head(sorted, shared.call[c].n)[i])]]
    /\ UNCHANGED sharedRest

SharedNext == \E c \in Callers : WriteDistances(c) \/ ReadDistances(c)
SpecShared == SharedInit /\ [][SharedNext]_vars

\* C28: when two find_nearest_stations calls with different targets run
\* concurrently on one matcher, every distance in a call's result is the
\* distance from that call's own target: the column written by one call is
\* never read by the other.
C28_OwnDistancesOnly ==
    shared.pc = "running" =>
        \A c \in Callers :
            shared.call[c].pc = "returned" =>
                \A i \in 1..Len(shared.call[c].stations) :
                    shared.call[c].stations[i].distance_km =
                        haversine_distance(Rat(shared.call[c].lat), Rat(0),
                                           shared.call[c].stations[i].lat,
                                           shared.call[c].stations[i].lon)

====
